---- MODULE Spec2Model ----
(***************************************************************************)
(* Type & entity resolution engine of agentic-kg (src/akg): TypeManager,   *)
(* CoreferenceResolver, EntityExtractionAgent and the Neo4jManager store.  *)
(*                                                                         *)
(* Python strings are modelled as tuples of one-character strings, so that *)
(* lower(), strip(), substring tests and difflib's ratio are computed the  *)
(* way the code computes them.                                             *)
(***************************************************************************)
EXTENDS Integers, Sequences, FiniteSets, TLC

(***************************************************************************)
(* Python string primitives                                                *)
(***************************************************************************)
UpperChars == <<"A", "B", "C", "D", "E", "F", "G", "H", "I", "J", "K", "L", "M", "N", "O", "P", "Q", "R", "S", "T", "U", "V", "W", "X", "Y", "Z">>

LowerChars == <<"a", "b", "c", "d", "e", "f", "g", "h", "i", "j", "k", "l", "m", "n", "o", "p", "q", "r", "s", "t", "u", "v", "w", "x", "y", "z">>

LowerChar(c) ==
    IF \E i \in DOMAIN UpperChars : UpperChars[i] = c
    THEN LowerChars[CHOOSE i \in DOMAIN UpperChars : UpperChars[i] = c]
    ELSE c

UpperChar(c) ==
    IF \E i \in DOMAIN LowerChars : LowerChars[i] = c
    THEN UpperChars[CHOOSE i \in DOMAIN LowerChars : LowerChars[i] = c]
    ELSE c

\* str.lower()
Lower(s) == [i \in DOMAIN s |-> LowerChar(s[i])]

\* str.upper()
Upper(s) == [i \in DOMAIN s |-> UpperChar(s[i])]

\* str.strip(): leading and trailing blanks removed
Strip(s) ==
    LET nb == {i \in DOMAIN s : s[i] # " "}
    IN  IF nb = {} THEN <<>>
        ELSE LET lo == CHOOSE i \in nb : \A j \in nb : i <= j
                 hi == CHOOSE i \in nb : \A j \in nb : j <= i
             IN  SubSeq(s, lo, hi)

\* sub in s
Contains(s, sub) ==
    \E i \in 1..(Len(s) - Len(sub) + 1) : SubSeq(s, i, i + Len(sub) - 1) = sub

\* len(s.split()): the number of blank-separated words
WordCount(s) ==
    Cardinality({i \in DOMAIN s : s[i] # " " /\ (i = 1 \/ s[i - 1] = " ")})

\* s.replace(" ", "_").replace("-", "_")
ReplaceBlankDash(s) == [i \in DOMAIN s |-> IF s[i] \in {" ", "-"} THEN "_" ELSE s[i]]

(***************************************************************************)
(* difflib.SequenceMatcher(None, a, b).ratio(), no junk: the longest       *)
(* matching block (earliest in a, then earliest in b), then the same to    *)
(* its left and to its right; ratio = 2 * matches / (len(a) + len(b)).     *)
(***************************************************************************)
RECURSIVE CommonPrefix(_, _, _, _, _, _)
CommonPrefix(a, b, i, j, ahi, bhi) ==
    IF i < ahi /\ j < bhi /\ a[i] = b[j]
    THEN 1 + CommonPrefix(a, b, i + 1, j + 1, ahi, bhi)
    ELSE 0

\* find_longest_match on a[alo..ahi-1], b[blo..bhi-1] (1-based, end exclusive)
FindLongestMatch(a, b, alo, ahi, blo, bhi) ==
    LET cand == {<<i, j>> \in (alo..(ahi - 1)) \X (blo..(bhi - 1)) : a[i] = b[j]}
        size(p) == CommonPrefix(a, b, p[1], p[2], ahi, bhi)
    IN  IF cand = {} THEN [i |-> alo, j |-> blo, k |-> 0]
        ELSE LET best == CHOOSE p \in cand : \A q \in cand :
                            \/ size(p) > size(q)
                            \/ size(p) = size(q) /\ p[1] < q[1]
                            \/ size(p) = size(q) /\ p[1] = q[1] /\ p[2] <= q[2]
             IN  [i |-> best[1], j |-> best[2], k |-> size(best)]

RECURSIVE MatchCount(_, _, _, _, _, _)
MatchCount(a, b, alo, ahi, blo, bhi) ==
    IF alo >= ahi \/ blo >= bhi THEN 0
    ELSE LET m == FindLongestMatch(a, b, alo, ahi, blo, bhi)
         IN  IF m.k = 0 THEN 0
             ELSE m.k + MatchCount(a, b, alo, m.i, blo, m.j)
                      + MatchCount(a, b, m.i + m.k, ahi, m.j + m.k, bhi)

\* ratio() as the exact fraction num / den (den = 0 means ratio 1.0)
RatioNum(a, b) == 2 * MatchCount(a, b, 1, Len(a) + 1, 1, Len(b) + 1)

RatioDen(a, b) == Len(a) + Len(b)

\* ratio(a, b) >= pct / 100
RatioAtLeast(a, b, pct) ==
    IF RatioDen(a, b) = 0 THEN TRUE
    ELSE 100 * RatioNum(a, b) >= pct * RatioDen(a, b)

\* ratio(a, b) > ratio(c, d)
RatioGreater(a, b, c, d) ==
    LET n1 == IF RatioDen(a, b) = 0 THEN 1 ELSE RatioNum(a, b)
        d1 == IF RatioDen(a, b) = 0 THEN 1 ELSE RatioDen(a, b)
        n2 == IF RatioDen(c, d) = 0 THEN 1 ELSE RatioNum(c, d)
        d2 == IF RatioDen(c, d) = 0 THEN 1 ELSE RatioDen(c, d)
    IN  n1 * d2 > n2 * d1

\* TypeManager._calculate_similarity: both arguments lowered first
SimilarityAtLeast(str1, str2, pct) == RatioAtLeast(Lower(str1), Lower(str2), pct)

SimilarityGreater(a, b, c, d) == RatioGreater(Lower(a), Lower(b), Lower(c), Lower(d))

(***************************************************************************)
(* String values used by the model                                         *)
(***************************************************************************)
N_OpenAI == <<"O", "p", "e", "n", "A", "I">>

N_Openai == <<"O", "p", "e", "n", "a", "i">>

N_Open == <<"O", "p", "e", "n">>

N_OpenAIInc == <<"O", "p", "e", "n", "A", "I", " ", "I", "n", "c">>

N_OpenAIInk == <<"O", "p", "e", "n", "A", "I", " ", "I", "n", "k">>

N_the_company == <<"t", "h", "e", " ", "c", "o", "m", "p", "a", "n", "y">>

N_they == <<"t", "h", "e", "y">>

N_Alice == <<"A", "l", "i", "c", "e">>

N_we == <<"w", "e">>

N_Company == <<"C", "o", "m", "p", "a", "n", "y">>

T_Org == <<"O", "r", "g">>

T_ORG == <<"O", "R", "G">>

T_Person == <<"P", "e", "r", "s", "o", "n">>

T_Orgs == <<"O", "r", "g", "s">>

T_Orga == <<"O", "r", "g", "a">>

R_manages == <<"m", "a", "n", "a", "g", "e", "s">>

K_type == <<"t", "y", "p", "e">>

K_name == <<"n", "a", "m", "e">>

K_role == <<"r", "o", "l", "e">>

L_Document == <<"D", "o", "c", "u", "m", "e", "n", "t">>

L_RELATIONSHIP == <<"R", "E", "L", "A", "T", "I", "O", "N", "S", "H", "I", "P">>

L_MENTIONED_IN == <<"M", "E", "N", "T", "I", "O", "N", "E", "D", "_", "I", "N">>

L_RELATES_TO == <<"R", "E", "L", "A", "T", "E", "S", "_", "T", "O">>

L_UNKNOWN == <<"U", "N", "K", "N", "O", "W", "N">>

L_TYPE_ == <<"T", "Y", "P", "E", "_">>

Digits == {"0", "1", "2", "3", "4", "5", "6", "7", "8", "9"}

IsAlpha(c) == (\E i \in DOMAIN UpperChars : UpperChars[i] = c) \/ (\E i \in DOMAIN LowerChars : LowerChars[i] = c)

IsAlnum(c) == IsAlpha(c) \/ c \in Digits

\* Python None where an id is expected
NoneId == 0 - 1

EmptyProps == [k \in {} |-> 0]

(***************************************************************************)
(* State                                                                   *)
(***************************************************************************)
VARIABLES
    nodes,                      \* Neo4j nodes: entity nodes and Document nodes
    edges,                      \* Neo4j relationships, each with its own identity
    nextId,                     \* uuid.uuid4(): the next fresh id
    nextEid,                    \* identity of the next relationship created
    entity_types_cache,         \* TypeManager._entity_types_cache
    relationship_types_cache,   \* TypeManager._relationship_types_cache
    cache_updated,              \* TypeManager._cache_updated
    config,                     \* the configuration flags the engine reads
    pc,                         \* per caller: position in the chunk loop
    batch,                      \* per caller: (entities, relationships) of the chunk
    attempt,                    \* per caller: attempt of save_to_neo4j
    results,                    \* per caller: what the parse of the chunk resolved, and whether its lookups reached the store
    saved,                      \* per caller: outcome of the last save_to_neo4j attempt, and whether its sessions reached the store
    chunks,                     \* chunks processed so far, all callers
    faults,                     \* store faults so far: timed-out writes, unreachable sessions
    mg,                         \* _merge_entities call in progress
    coref,                      \* last resolve_coreferences_in_entities call
    call                        \* a single call of one method of the engine: its arguments and what it returned

vars == <<nodes, edges, nextId, nextEid, entity_types_cache, relationship_types_cache, cache_updated, config, pc, batch, attempt, results, saved, chunks, faults, mg, coref, call>>

storeVars == <<nodes, edges, nextId, nextEid>>

typeVars == <<entity_types_cache, relationship_types_cache, cache_updated>>

callerVars == <<pc, batch, attempt, results, saved, chunks>>

(***************************************************************************)
(* Neo4jManager                                                            *)
(***************************************************************************)
\* Neo4jManager._sanitize_label
_sanitize_label(label) ==
    LET up == Upper(label)
        s1 == [i \in DOMAIN up |-> IF IsAlnum(up[i]) \/ up[i] = "_" THEN up[i] ELSE "_"]
    IN  IF s1 = <<>> THEN L_UNKNOWN
        ELSE IF ~(IsAlpha(s1[1]) \/ s1[1] = "_") THEN L_TYPE_ \o s1
        ELSE s1

IsEntityNode(n) == n.label # L_Document

\* safe_key = key.replace(" ", "_").replace("-", "_") for each property
SafeProps(properties) ==
    LET keys == {ReplaceBlankDash(k) : k \in DOMAIN properties}
    IN  [sk \in keys |-> properties[CHOOSE k \in DOMAIN properties : ReplaceBlankDash(k) = sk]]

\* where one of the node's own fields is also a key of properties, the
\* property setter comes later in the SET clause and wins
PropOr(props, key, default) == IF key \in DOMAIN props THEN props[key] ELSE default

\* Neo4jManager.create_entity: MERGE on (label, id), SET of the fields, then
\* MERGE of the MENTIONED_IN link when the Document node exists.
\* Returns the store after the call; a failed session leaves it unchanged.
create_entity(ns, es, eid, up, entity) ==
    IF ~up THEN [nodes |-> ns, edges |-> es, nextEid |-> eid]
    ELSE LET label == _sanitize_label(entity.entity_type)
             sp == SafeProps(entity.properties)
             old == {n \in ns : n.label = label /\ n.id = entity.id}
             oldProps == IF old = {} THEN EmptyProps ELSE (CHOOSE n \in old : TRUE).props
             keep == [k \in (DOMAIN oldProps) \ (DOMAIN sp) |-> oldProps[k]]
             node == [id |-> entity.id, label |-> label,
                      name |-> PropOr(sp, K_name, entity.name),
                      type |-> PropOr(sp, K_type, entity.entity_type),
                      confidence |-> entity.confidence_score,
                      document_id |-> entity.document_id,
                      props |-> sp @@ keep]
             ns2 == (ns \ old) \cup {node}
             docs == {d \in ns : d.label = L_Document /\ d.id = entity.document_id}
             \* MATCH (e {id: $entity_id}) takes every node with that id
             linkFrom == {n \in ns2 : n.id = entity.id}
             missing == {<<n.id, d.id>> : n \in linkFrom, d \in docs} \
                        {<<e.src, e.tgt>> : e \in {x \in es : x.type = L_MENTIONED_IN}}
         IN  IF missing = {} THEN [nodes |-> ns2, edges |-> es, nextEid |-> eid]
             ELSE LET m == CHOOSE x \in missing : TRUE
                  IN  [nodes |-> ns2,
                       edges |-> es \cup {[eid |-> eid, src |-> m[1], tgt |-> m[2], type |-> L_MENTIONED_IN,
                                           confidence |-> 0, props |-> EmptyProps, merged_from |-> NoneId]},
                       nextEid |-> eid + 1]

\* clean_rel_type = relationship_type.replace(" ", "_").replace("-", "_").upper()
clean_rel_type(relationship_type) == Upper(ReplaceBlankDash(relationship_type))

\* create_relationship with CREATE in place of MERGE: every call adds an edge
create_relationship_with_create(ns, es, eid, up, rel) ==
    LET hasEnds == (\E n \in ns : n.id = rel.source_entity_id) /\ (\E n \in ns : n.id = rel.target_entity_id)
    IN  IF ~up \/ ~hasEnds THEN [edges |-> es, nextEid |-> eid]
        ELSE [edges |-> es \cup {[eid |-> eid, src |-> rel.source_entity_id, tgt |-> rel.target_entity_id,
                                  type |-> clean_rel_type(rel.relationship_type),
                                  confidence |-> rel.confidence_score, props |-> SafeProps(rel.properties),
                                  merged_from |-> NoneId]},
              nextEid |-> eid + 1]

\* Neo4jManager.create_relationship: MATCH both endpoints by id, MERGE one
\* relationship of the cleaned type between them, SET its fields.
create_relationship(ns, es, eid, up, rel) ==
    LET hasEnds == (\E n \in ns : n.id = rel.source_entity_id) /\ (\E n \in ns : n.id = rel.target_entity_id)
        ty == clean_rel_type(rel.relationship_type)
        old == {e \in es : e.src = rel.source_entity_id /\ e.tgt = rel.target_entity_id /\ e.type = ty}
        sp == SafeProps(rel.properties)
        upd(e) == [e EXCEPT !.confidence = rel.confidence_score,
                            !.props = sp @@ [k \in (DOMAIN e.props) \ (DOMAIN sp) |-> e.props[k]]]
    IN  IF ~up \/ ~hasEnds THEN [edges |-> es, nextEid |-> eid]
        ELSE IF old # {} THEN [edges |-> (es \ old) \cup {upd(e) : e \in old}, nextEid |-> eid]
        ELSE [edges |-> es \cup {[eid |-> eid, src |-> rel.source_entity_id, tgt |-> rel.target_entity_id,
                                  type |-> ty, confidence |-> rel.confidence_score, props |-> sp,
                                  merged_from |-> NoneId]},
              nextEid |-> eid + 1]

\* Neo4jManager.get_existing_entity_types: DISTINCT e.type, [] on any error
get_existing_entity_types(ns, up) ==
    IF ~up THEN {} ELSE {n.type : n \in {x \in ns : IsEntityNode(x) /\ x.type # <<>>}}

\* Neo4jManager.get_existing_relationship_types: DISTINCT r.type over the
\* relationships typed RELATES_TO, [] on any error
get_existing_relationship_types(es, up) ==
    IF ~up THEN {}
    ELSE {e.props[K_type] : e \in {x \in es : x.type = L_RELATES_TO /\ K_type \in DOMAIN x.props /\ x.props[K_type] # <<>>}}

\* Neo4jManager.get_entity_by_name_and_type: the ids the query may return
\* first (NoneId: no record, or the error path); the name and the type are
\* compared as stored, letter case included
get_entity_by_name_and_type(ns, up, name, entity_type) ==
    LET found == IF entity_type # <<>>
                 THEN {n \in ns : IsEntityNode(n) /\ n.name = name /\ n.type = entity_type}
                 ELSE {n \in ns : IsEntityNode(n) /\ n.name = name}
    IN  IF ~up \/ found = {} THEN {NoneId} ELSE {n.id : n \in found}

\* Neo4jManager.find_similar_entities(self, name, threshold=0.8)
find_similar_entities_params == <<"name", "threshold">>

\* Python's binding of a call's arguments to a method's parameters: FALSE
\* is the TypeError (too many positionals, an unknown keyword, or a
\* parameter given both by position and by keyword)
BindsArguments(params, npos, keywords) ==
    /\ npos <= Len(params)
    /\ \A k \in keywords : \E i \in (npos + 1)..Len(params) : params[i] = k

\* Neo4jManager.find_similar_entities: the entity nodes whose lowered name
\* contains the lowered search name or is contained in it (the query's
\* LIMIT 10 is above the number of nodes of the model); no error escapes
find_similar_entities(ns, up, name) ==
    IF ~up THEN {}
    ELSE {n \in ns : IsEntityNode(n) /\ (Contains(Lower(n.name), Lower(name)) \/ Contains(Lower(name), Lower(n.name)))}

\* ORDER BY size(e.name): the records that may come first
FirstBySize(found) == {n \in found : \A m \in found : Len(n.name) <= Len(m.name)}

\* The exact edge lookup the extraction agent calls; Neo4jManager defines
\* no such method, the lookup is the one section 4.4 describes: an edge
\* with identical (sourceId, targetId, canonicalType). A lookup that errors
\* is caught by the caller and counts as "not found".
find_existing_relationship(es, up, source_id, target_id, rel_type) ==
    up /\ \E e \in es : e.src = source_id /\ e.tgt = target_id /\ e.type = clean_rel_type(rel_type)

(***************************************************************************)
(* TypeManager                                                             *)
(***************************************************************************)
\* TypeManager.similarity_threshold, as a percentage
similarity_threshold == 80

\* TypeManager.refresh_type_cache: both caches are assigned the store's listing
refresh_type_cache(ns, es, up) ==
    [entity_types |-> get_existing_entity_types(ns, up),
     relationship_types |-> get_existing_relationship_types(es, up),
     updated |-> TRUE]

\* TypeManager._find_similar_types: the labels at or above the threshold that
\* may come first after the sort (a set has no order: equal scores keep the
\* set's iteration order)
_find_similar_types(proposed_type, existing_types) ==
    LET similar == {t \in existing_types : SimilarityAtLeast(Lower(proposed_type), Lower(t), similarity_threshold)}
    IN  {t \in similar : \A u \in similar : ~SimilarityGreater(proposed_type, u, proposed_type, t)}

\* resolve_entity_type answering an exact match with the label as proposed
\* instead of the label as stored
resolve_type_as_proposed(cache, proposed_type) ==
    LET proposed_lower == Strip(Lower(proposed_type))
        exact == {t \in cache : Lower(t) = proposed_lower}
        similar == _find_similar_types(proposed_type, cache)
    IN  IF exact # {} THEN {[type |-> proposed_type, is_new |-> FALSE, cache |-> cache]}
        ELSE IF similar # {} THEN {[type |-> t, is_new |-> FALSE, cache |-> cache] : t \in similar}
        ELSE {[type |-> proposed_type, is_new |-> TRUE, cache |-> cache \cup {proposed_type}]}

\* TypeManager.resolve_entity_type / resolve_relationship_type on one cache:
\* the outcomes (type, is_new, cache afterwards) the call may have
resolve_type(cache, proposed_type) ==
    LET proposed_lower == Strip(Lower(proposed_type))
        exact == {t \in cache : Lower(t) = proposed_lower}
        similar == _find_similar_types(proposed_type, cache)
    IN  IF exact # {} THEN {[type |-> t, is_new |-> FALSE, cache |-> cache] : t \in exact}
        ELSE IF similar # {} THEN {[type |-> t, is_new |-> FALSE, cache |-> cache] : t \in similar}
        ELSE {[type |-> proposed_type, is_new |-> TRUE, cache |-> cache \cup {proposed_type}]}

(***************************************************************************)
(* EntityExtractionAgent._find_or_create_entity                            *)
(***************************************************************************)
\* the literal 0.9 of the automatic-reuse branch, as a percentage
HighConfidenceScore == 90

\* best_match.get('similarity_score', 0.0): the records find_similar_entities
\* returns carry id, name, type, confidence and properties, and no score
similarity_score(best_match) == 0

\* Steps 2 and 3 once the calls are bound: NoneId when no branch reuses
FuzzyCascade(ns, up, cfg, entity_name, entity_type, bound3) ==
    LET similar_entities == find_similar_entities(ns, up, entity_name)
        step2(best_match) ==
            IF similarity_score(best_match) >= HighConfidenceScore THEN best_match.id
            ELSE IF similarity_score(best_match) >= cfg.entity_similarity_threshold /\ best_match.type = entity_type
                 THEN best_match.id
                 ELSE NoneId
        step3(best_match) ==
            IF similarity_score(best_match) >= cfg.cross_type_similarity_threshold THEN best_match.id ELSE NoneId
        firsts == FirstBySize(similar_entities)
        reuse2 == {step2(b) : b \in firsts} \ {NoneId}
        broader == similar_entities = {} \/ \E b \in firsts : similarity_score(b) < cfg.entity_similarity_threshold
        \* an unbound second call is a TypeError, caught: a new entity
        reuse3 == IF broader /\ bound3 THEN {step3(b) : b \in firsts} \ {NoneId} ELSE {}
    IN  IF reuse2 # {} THEN reuse2
        ELSE IF reuse3 # {} THEN reuse3
        ELSE {NoneId}

\* The outcomes (id, is_new) of one call; uuid is the id a new entity gets
_find_or_create_entity(ns, up, cfg, entity_name, entity_type, uuid) ==
    IF ~cfg.enable_entity_deduplication THEN {[id |-> uuid, is_new |-> TRUE]}
    ELSE LET exact == get_entity_by_name_and_type(ns, up, entity_name, entity_type)
             \* find_similar_entities(entity_name, entity_type, threshold=...) and
             \* find_similar_entities(entity_name, entity_type=None, threshold=...)
             bound2 == BindsArguments(find_similar_entities_params, 2, {"threshold"})
             bound3 == BindsArguments(find_similar_entities_params, 1, {"entity_type", "threshold"})
             fuzzy == IF bound2
                      THEN FuzzyCascade(ns, up, cfg, entity_name, entity_type, bound3)
                      ELSE {NoneId}     \* TypeError, caught: a new entity
             after(e) == IF e # NoneId THEN {[id |-> e, is_new |-> FALSE]}
                         ELSE {IF f # NoneId THEN [id |-> f, is_new |-> FALSE]
                                             ELSE [id |-> uuid, is_new |-> TRUE] : f \in fuzzy}
         IN  UNION {after(e) : e \in exact}

(***************************************************************************)
(* CoreferenceResolver                                                     *)
(***************************************************************************)
\* CoreferenceResolver.pronoun_mappings, in the dict's order
pronoun_mappings == <<
    << <<"w", "e">>, "ORGANIZATION">>,
    << <<"u", "s">>, "ORGANIZATION">>,
    << <<"o", "u", "r">>, "ORGANIZATION">>,
    << <<"o", "u", "r", "s", "e", "l", "v", "e", "s">>, "ORGANIZATION">>,
    << <<"y", "o", "u">>, "USER">>,
    << <<"y", "o", "u", "r">>, "USER">>,
    << <<"y", "o", "u", "r", "s">>, "USER">>,
    << <<"y", "o", "u", "r", "s", "e", "l", "f">>, "USER">>,
    << <<"y", "o", "u", "r", "s", "e", "l", "v", "e", "s">>, "USER">>,
    << <<"t", "h", "e", "y">>, "CONTEXTUAL">>,
    << <<"t", "h", "e", "m">>, "CONTEXTUAL">>,
    << <<"t", "h", "e", "i", "r">>, "CONTEXTUAL">>,
    << <<"t", "h", "e", "i", "r", "s">>, "CONTEXTUAL">>,
    << <<"t", "h", "e", "m", "s", "e", "l", "v", "e", "s">>, "CONTEXTUAL">>,
    << <<"i", "t">>, "CONTEXTUAL">>,
    << <<"i", "t", "s">>, "CONTEXTUAL">>,
    << <<"i", "t", "s", "e", "l", "f">>, "CONTEXTUAL">>,
    << <<"h", "e">>, "PERSON">>,
    << <<"h", "i", "m">>, "PERSON">>,
    << <<"h", "i", "s">>, "PERSON">>,
    << <<"h", "i", "m", "s", "e", "l", "f">>, "PERSON">>,
    << <<"s", "h", "e">>, "PERSON">>,
    << <<"h", "e", "r">>, "PERSON">>,
    << <<"h", "e", "r", "s">>, "PERSON">>,
    << <<"h", "e", "r", "s", "e", "l", "f">>, "PERSON">>
>>

\* CoreferenceResolver.generic_patterns, in the dict's order
generic_patterns == <<
    << <<"t", "h", "e", " ", "c", "o", "m", "p", "a", "n", "y">>, "ORGANIZATION">>,
    << <<"t", "h", "e", " ", "o", "r", "g", "a", "n", "i", "z", "a", "t", "i", "o", "n">>, "ORGANIZATION">>,
    << <<"t", "h", "e", " ", "b", "u", "s", "i", "n", "e", "s", "s">>, "ORGANIZATION">>,
    << <<"t", "h", "e", " ", "e", "n", "t", "i", "t", "y">>, "ORGANIZATION">>,
    << <<"t", "h", "e", " ", "p", "l", "a", "t", "f", "o", "r", "m">>, "SERVICE">>,
    << <<"t", "h", "e", " ", "s", "e", "r", "v", "i", "c", "e">>, "SERVICE">>,
    << <<"t", "h", "e", " ", "s", "e", "r", "v", "i", "c", "e", "s">>, "SERVICE">>,
    << <<"t", "h", "e", " ", "s", "y", "s", "t", "e", "m">>, "SERVICE">>,
    << <<"t", "h", "e", " ", "a", "p", "p", "l", "i", "c", "a", "t", "i", "o", "n">>, "SERVICE">>,
    << <<"t", "h", "e", " ", "a", "p", "p">>, "SERVICE">>,
    << <<"t", "h", "e", " ", "s", "o", "f", "t", "w", "a", "r", "e">>, "SERVICE">>,
    << <<"t", "h", "e", " ", "p", "r", "o", "d", "u", "c", "t">>, "SERVICE">>,
    << <<"t", "h", "e", " ", "u", "s", "e", "r">>, "USER">>,
    << <<"t", "h", "e", " ", "u", "s", "e", "r", "s">>, "USER">>,
    << <<"t", "h", "e", " ", "c", "u", "s", "t", "o", "m", "e", "r">>, "USER">>,
    << <<"t", "h", "e", " ", "c", "u", "s", "t", "o", "m", "e", "r", "s">>, "USER">>,
    << <<"t", "h", "e", " ", "i", "n", "d", "i", "v", "i", "d", "u", "a", "l">>, "USER">>,
    << <<"t", "h", "e", " ", "p", "e", "r", "s", "o", "n">>, "USER">>,
    << <<"t", "h", "e", " ", "p", "o", "l", "i", "c", "y">>, "POLICY_DOCUMENT">>,
    << <<"t", "h", "i", "s", " ", "p", "o", "l", "i", "c", "y">>, "POLICY_DOCUMENT">>,
    << <<"t", "h", "e", " ", "d", "o", "c", "u", "m", "e", "n", "t">>, "POLICY_DOCUMENT">>,
    << <<"t", "h", "e", " ", "a", "g", "r", "e", "e", "m", "e", "n", "t">>, "POLICY_DOCUMENT">>,
    << <<"t", "h", "e", " ", "t", "e", "r", "m", "s">>, "POLICY_DOCUMENT">>,
    << <<"t", "h", "e", " ", "d", "a", "t", "a">>, "DATA">>,
    << <<"t", "h", "e", " ", "i", "n", "f", "o", "r", "m", "a", "t", "i", "o", "n">>, "DATA">>,
    << <<"s", "u", "c", "h", " ", "i", "n", "f", "o", "r", "m", "a", "t", "i", "o", "n">>, "DATA">>,
    << <<"s", "u", "c", "h", " ", "d", "a", "t", "a">>, "DATA">>
>>

\* CoreferenceResolver.context_mappings: (context, category) -> expected names in order
context_mappings(document_context, category) ==
    IF document_context = "privacy_policy" /\ category = "ORGANIZATION" THEN
        << <<"O", "p", "e", "n", "A", "I">>, <<"O", "p", "e", "n", "A", "I", ",", " ", "I", "n", "c", ".">> >>
    ELSE IF document_context = "privacy_policy" /\ category = "SERVICE" THEN
        << <<"C", "h", "a", "t", "G", "P", "T">>, <<"O", "p", "e", "n", "A", "I", " ", "S", "e", "r", "v", "i", "c", "e", "s">>, <<"A", "I", " ", "S", "e", "r", "v", "i", "c", "e", "s">> >>
    ELSE IF document_context = "privacy_policy" /\ category = "USER" THEN
        << <<"U", "s", "e", "r">>, <<"U", "s", "e", "r", "s">>, <<"D", "a", "t", "a", " ", "S", "u", "b", "j", "e", "c", "t">> >>
    ELSE IF document_context = "privacy_policy" /\ category = "POLICY_DOCUMENT" THEN
        << <<"P", "r", "i", "v", "a", "c", "y", " ", "P", "o", "l", "i", "c", "y">>, <<"C", "h", "a", "t", "G", "P", "T", " ", "P", "r", "i", "v", "a", "c", "y", " ", "P", "o", "l", "i", "c", "y">> >>
    ELSE IF document_context = "privacy_policy" /\ category = "DATA" THEN
        << <<"P", "e", "r", "s", "o", "n", "a", "l", " ", "D", "a", "t", "a">>, <<"U", "s", "e", "r", " ", "D", "a", "t", "a">>, <<"P", "e", "r", "s", "o", "n", "a", "l", " ", "I", "n", "f", "o", "r", "m", "a", "t", "i", "o", "n">> >>
    ELSE IF document_context = "terms_of_service" /\ category = "ORGANIZATION" THEN
        << <<"O", "p", "e", "n", "A", "I">>, <<"C", "o", "m", "p", "a", "n", "y">> >>
    ELSE IF document_context = "terms_of_service" /\ category = "SERVICE" THEN
        << <<"S", "e", "r", "v", "i", "c", "e", "s">>, <<"P", "l", "a", "t", "f", "o", "r", "m">>, <<"C", "h", "a", "t", "G", "P", "T">> >>
    ELSE IF document_context = "terms_of_service" /\ category = "USER" THEN
        << <<"U", "s", "e", "r">>, <<"C", "u", "s", "t", "o", "m", "e", "r">>, <<"Y", "o", "u">> >>
    ELSE IF document_context = "terms_of_service" /\ category = "POLICY_DOCUMENT" THEN
        << <<"T", "e", "r", "m", "s", " ", "o", "f", " ", "S", "e", "r", "v", "i", "c", "e">>, <<"A", "g", "r", "e", "e", "m", "e", "n", "t">> >>
    ELSE IF document_context = "terms_of_service" /\ category = "DATA" THEN
        << <<"C", "o", "n", "t", "e", "n", "t">>, <<"D", "a", "t", "a">>, <<"I", "n", "f", "o", "r", "m", "a", "t", "i", "o", "n">> >>
    ELSE <<>>

HasContextMapping(document_context, category) ==
    /\ document_context \in {"privacy_policy", "terms_of_service"}
    /\ category \in {"DATA", "ORGANIZATION", "POLICY_DOCUMENT", "SERVICE", "USER"}

KW_ORGANIZATION == {<<"o", "p", "e", "n", "a", "i">>, <<"c", "o", "m", "p", "a", "n", "y">>, <<"o", "r", "g", "a", "n", "i", "z", "a", "t", "i", "o", "n">>}

KW_SERVICE == {<<"c", "h", "a", "t", "g", "p", "t">>, <<"s", "e", "r", "v", "i", "c", "e">>, <<"p", "l", "a", "t", "f", "o", "r", "m">>, <<"a", "p", "i">>}

KW_USER == {<<"u", "s", "e", "r">>, <<"c", "u", "s", "t", "o", "m", "e", "r">>, <<"i", "n", "d", "i", "v", "i", "d", "u", "a", "l">>}

KW_POLICY_DOCUMENT == {<<"p", "o", "l", "i", "c", "y">>, <<"t", "e", "r", "m", "s">>, <<"a", "g", "r", "e", "e", "m", "e", "n", "t">>, <<"d", "o", "c", "u", "m", "e", "n", "t">>}

KW_DATA == {<<"d", "a", "t", "a">>, <<"i", "n", "f", "o", "r", "m", "a", "t", "i", "o", "n">>}

W_user == <<"u", "s", "e", "r">>

W_person == <<"p", "e", "r", "s", "o", "n">>


IsPronoun(entity_name) == \E i \in DOMAIN pronoun_mappings : pronoun_mappings[i][1] = entity_name

PronounCategory(entity_name) ==
    pronoun_mappings[CHOOSE i \in DOMAIN pronoun_mappings : pronoun_mappings[i][1] = entity_name][2]

\* CoreferenceResolver._check_generic_reference: the category of the first
\* pattern that equals the name or, having several words, occurs in it;
\* "" for None
_check_generic_reference(entity_name) ==
    LET name == Strip(Lower(entity_name))
        hits == {i \in DOMAIN generic_patterns :
                    \/ generic_patterns[i][1] = name
                    \/ WordCount(generic_patterns[i][1]) > 1 /\ Contains(name, generic_patterns[i][1])}
    IN  IF hits = {} THEN ""
        ELSE generic_patterns[CHOOSE i \in hits : \A j \in hits : i <= j][2]

ContainsAny(s, words) == \E w \in words : Contains(s, w)

\* the chain without the skip of generic references: only pronouns are
\* left out of the main entities
MainCategory_keeping_generic(entity) ==
    LET entity_name == Strip(entity.name)
        lower == Lower(entity_name)
        type_lower == Lower(entity.entity_type)
    IN  IF IsPronoun(lower) THEN ""
        ELSE IF ContainsAny(lower, KW_ORGANIZATION) THEN "ORGANIZATION"
        ELSE IF ContainsAny(lower, KW_SERVICE) THEN "SERVICE"
        ELSE IF ContainsAny(lower, KW_USER) /\ Contains(type_lower, W_user) THEN "USER"
        ELSE IF ContainsAny(lower, KW_POLICY_DOCUMENT) THEN "POLICY_DOCUMENT"
        ELSE IF ContainsAny(lower, KW_DATA) /\ Len(entity_name) > 10 THEN "DATA"
        ELSE IF Contains(type_lower, W_person) /\ WordCount(entity_name) <= 3 THEN "PERSON"
        ELSE ""

\* the if/elif chain of _identify_main_entities; "" where the entity is
\* skipped or falls in no category
MainCategory(entity) ==
    LET entity_name == Strip(entity.name)
        lower == Lower(entity_name)
        type_lower == Lower(entity.entity_type)
    IN  IF IsPronoun(lower) \/ _check_generic_reference(lower) # "" THEN ""
        ELSE IF ContainsAny(lower, KW_ORGANIZATION) THEN "ORGANIZATION"
        ELSE IF ContainsAny(lower, KW_SERVICE) THEN "SERVICE"
        ELSE IF ContainsAny(lower, KW_USER) /\ Contains(type_lower, W_user) THEN "USER"
        ELSE IF ContainsAny(lower, KW_POLICY_DOCUMENT) THEN "POLICY_DOCUMENT"
        ELSE IF ContainsAny(lower, KW_DATA) /\ Len(entity_name) > 10 THEN "DATA"
        ELSE IF Contains(type_lower, W_person) /\ WordCount(entity_name) <= 3 THEN "PERSON"
        ELSE ""

MainCategories == {"ORGANIZATION", "SERVICE", "USER", "POLICY_DOCUMENT", "DATA", "PERSON"}

\* CoreferenceResolver._identify_main_entities: category -> entities in input order
_identify_main_entities(entities) ==
    [cat \in MainCategories |-> SelectSeq(entities, LAMBDA e : MainCategory(e) = cat)]

ResolvedEntity(entity, pronoun_entity) ==
    [id |-> entity.id, name |-> entity.name, entity_type |-> entity.entity_type,
     document_id |-> pronoun_entity.document_id, properties |-> pronoun_entity.properties,
     confidence_score |-> IF entity.confidence_score >= pronoun_entity.confidence_score
                          THEN entity.confidence_score ELSE pronoun_entity.confidence_score]

\* _resolve_pronoun without the context-specific mappings: always the first
\* main entity of the category
_resolve_pronoun_first_main(pronoun_entity, pronoun_type, main_entities, document_context) ==
    LET mains == IF pronoun_type \in MainCategories THEN main_entities[pronoun_type] ELSE <<>>
    IN  IF mains # <<>> THEN <<ResolvedEntity(mains[1], pronoun_entity)>>
        ELSE <<>>

\* CoreferenceResolver._resolve_pronoun (and _resolve_generic_reference, which
\* delegates to it): <<resolved>> or <<>> for None
_resolve_pronoun(pronoun_entity, pronoun_type, main_entities, document_context) ==
    LET mains == IF pronoun_type \in MainCategories THEN main_entities[pronoun_type] ELSE <<>>
        expected == context_mappings(document_context, pronoun_type)
        pairs == IF HasContextMapping(document_context, pronoun_type)
                 THEN {<<c, e>> \in (DOMAIN expected) \X (DOMAIN mains) :
                          Contains(Lower(mains[e].name), Lower(expected[c]))}
                 ELSE {}
    IN  IF pairs # {}
        THEN LET first == CHOOSE p \in pairs : \A q \in pairs : p[1] < q[1] \/ (p[1] = q[1] /\ p[2] <= q[2])
             IN  <<ResolvedEntity(mains[first[2]], pronoun_entity)>>
        ELSE IF mains # <<>> THEN <<ResolvedEntity(mains[1], pronoun_entity)>>
        ELSE <<>>

\* one iteration of the loop of resolve_coreferences_in_entities: what is
\* appended to resolved_entities for this entity
ResolveOne(entity, main_entities, document_context) ==
    LET entity_name == Lower(Strip(entity.name))
        asPronoun == IF IsPronoun(entity_name)
                     THEN _resolve_pronoun(entity, PronounCategory(entity_name), main_entities, document_context)
                     ELSE <<>>
        generic_type == _check_generic_reference(entity_name)
        asGeneric == IF generic_type # ""
                     THEN _resolve_pronoun(entity, generic_type, main_entities, document_context)
                     ELSE <<>>
    IN  IF asPronoun # <<>> THEN asPronoun
        ELSE IF asGeneric # <<>> THEN asGeneric
        ELSE <<entity>>

RECURSIVE Flatten(_)
Flatten(seqs) == IF seqs = <<>> THEN <<>> ELSE Head(seqs) \o Flatten(Tail(seqs))

\* CoreferenceResolver.resolve_coreferences_in_entities
resolve_coreferences_in_entities(entities, document_context) ==
    IF entities = <<>> THEN entities
    ELSE LET main_entities == _identify_main_entities(entities)
         IN  Flatten([i \in DOMAIN entities |-> ResolveOne(entities[i], main_entities, document_context)])

(***************************************************************************)
(* EntityExtractionAgent._parse_gemini_response_with_type_resolution       *)
(***************************************************************************)
\* the type cache a resolve call works on: refreshed first when it was never loaded
CacheFor(st, ctx) ==
    IF st.updated THEN st
    ELSE LET r == refresh_type_cache(ctx.nodes, ctx.edges, ctx.up)
         IN  [st EXCEPT !.etypes = r.entity_types, !.rtypes = r.relationship_types, !.updated = TRUE]

\* one iteration of the entity loop: the states it may leave
EntityStep(st0, ctx, entity_data) ==
    LET st == CacheFor(st0, ctx)
        found(rt) == _find_or_create_entity(ctx.nodes, ctx.up, ctx.cfg, entity_data.name, rt.type, st.nextId)
        step(rt, f) ==
            [st EXCEPT
                !.etypes = rt.cache,
                !.nextId = IF f.is_new THEN st.nextId + 1 ELSE st.nextId,
                !.name_to_id = [n \in (DOMAIN st.name_to_id) \cup {entity_data.name} |->
                                   IF n = entity_data.name THEN f.id ELSE st.name_to_id[n]],
                !.entities = IF f.is_new
                             THEN Append(st.entities,
                                         [id |-> f.id, name |-> entity_data.name, entity_type |-> rt.type,
                                          document_id |-> ctx.document_id, properties |-> entity_data.properties,
                                          confidence_score |-> entity_data.confidence])
                             ELSE st.entities,
                !.resolved = Append(st.resolved,
                                    [name |-> entity_data.name, type |-> rt.type, id |-> f.id, is_new |-> f.is_new,
                                     is_new_type |-> rt.is_new, confidence |-> entity_data.confidence,
                                     proposed_type |-> entity_data.type, registry |-> st.etypes,
                                     registry_after |-> rt.cache,
                                     found |-> {n \in ctx.nodes : ~f.is_new /\ n.id = f.id}])]
    IN  UNION {{step(rt, f) : f \in found(rt)} : rt \in resolve_type(st.etypes, entity_data.type)}

\* one iteration of the relationship loop
RelationshipStep(st0, ctx, rel_data) ==
    LET st == CacheFor(st0, ctx)
        source_id == IF rel_data.source_entity \in DOMAIN st.name_to_id THEN st.name_to_id[rel_data.source_entity] ELSE NoneId
        target_id == IF rel_data.target_entity \in DOMAIN st.name_to_id THEN st.name_to_id[rel_data.target_entity] ELSE NoneId
        existing(rt) == /\ ctx.cfg.enable_relationship_deduplication
                        /\ find_existing_relationship(ctx.edges, ctx.up, source_id, target_id, rt.type)
        step(rt) ==
            IF source_id = NoneId \/ target_id = NoneId \/ existing(rt)
            THEN [st EXCEPT !.rtypes = rt.cache,
                            !.rel_resolved = Append(st.rel_resolved, [type |-> rt.type, is_new_type |-> rt.is_new])]
            ELSE [st EXCEPT
                    !.rtypes = rt.cache,
                    !.rel_resolved = Append(st.rel_resolved, [type |-> rt.type, is_new_type |-> rt.is_new]),
                    !.relationships = Append(st.relationships,
                                             [source_entity_id |-> source_id, target_entity_id |-> target_id,
                                              relationship_type |-> rt.type, document_id |-> ctx.document_id,
                                              properties |-> rel_data.properties,
                                              confidence_score |-> rel_data.confidence])]
    IN  {step(rt) : rt \in resolve_type(st.rtypes, rel_data.type)}

RECURSIVE ParseEntities(_, _, _, _)
ParseEntities(states, ctx, data, i) ==
    IF i > Len(data) THEN states
    ELSE ParseEntities(UNION {EntityStep(st, ctx, data[i]) : st \in states}, ctx, data, i + 1)

RECURSIVE ParseRelationships(_, _, _, _)
ParseRelationships(states, ctx, data, i) ==
    IF i > Len(data) THEN states
    ELSE ParseRelationships(UNION {RelationshipStep(st, ctx, data[i]) : st \in states}, ctx, data, i + 1)

\* the whole parse of one response: entities first, then relationships
_parse_gemini_response_with_type_resolution(st, ctx, data) ==
    ParseRelationships(ParseEntities({st}, ctx, data.entities, 1), ctx, data.relationships, 1)

(***************************************************************************)
(* EntityExtractionAgent.save_to_neo4j: one attempt                        *)
(***************************************************************************)
\* the literal max_retries of save_to_neo4j
max_retries == 3

\* create_entity / create_relationship for the k first writes of the batch,
\* entities before relationships
RECURSIVE ApplyWrites(_, _, _, _, _, _)
ApplyWrites(store, up, entities, relationships, i, k) ==
    IF i > k THEN store
    ELSE IF i <= Len(entities)
    THEN ApplyWrites(create_entity(store.nodes, store.edges, store.nextEid, up, entities[i]),
                     up, entities, relationships, i + 1, k)
    ELSE LET r == create_relationship(store.nodes, store.edges, store.nextEid, up, relationships[i - Len(entities)])
         IN  ApplyWrites([nodes |-> store.nodes, edges |-> r.edges, nextEid |-> r.nextEid],
                         up, entities, relationships, i + 1, k)

(***************************************************************************)
(* Bounds and inputs                                                       *)
(***************************************************************************)
\* chunks processed in one run, over all callers
MaxChunks == 2

\* store faults in one run: a write that times out, or a handler that
\* finds the store unreachable
MaxFaults == 1

Callers == {1, 2}

\* the id of the Document node the ingestion created for the run's document
DocId == 0

DocumentNode ==
    [id |-> DocId, label |-> L_Document, name |-> <<>>, type |-> <<>>, confidence |-> 0,
     document_id |-> DocId, props |-> EmptyProps]

\* config.py defaults of the two thresholds, as percentages
entity_similarity_threshold == 80

cross_type_similarity_threshold == 95

Config(entityDedup, relDedup, corefOn) ==
    [enable_entity_deduplication |-> entityDedup,
     enable_relationship_deduplication |-> relDedup,
     enable_coreference_resolution |-> corefOn,
     entity_similarity_threshold |-> entity_similarity_threshold,
     cross_type_similarity_threshold |-> cross_type_similarity_threshold]

Configs == {Config(TRUE, TRUE, TRUE), Config(FALSE, FALSE, FALSE)}

\* what _determine_document_context may return for the document
DocumentContexts == {"privacy_policy", "general"}

Cand(name, type, confidence) ==
    [name |-> name, type |-> type, properties |-> EmptyProps, confidence |-> confidence]

\* a candidate whose response entry carries a properties object
CandWith(name, type, confidence, properties) ==
    [name |-> name, type |-> type, properties |-> properties, confidence |-> confidence]

RelCand(source, target, type, confidence) ==
    [source_entity |-> source, target_entity |-> target, type |-> type,
     properties |-> EmptyProps, confidence |-> confidence]

Chunk(entities, relationships) == [entities |-> entities, relationships |-> relationships]

\* the extractor's responses the model draws from
ChunkInputs ==
    {Chunk(<<Cand(N_OpenAI, T_Org, 90)>>, <<>>),
     Chunk(<<Cand(N_Openai, T_ORG, 85)>>, <<>>),
     Chunk(<<Cand(N_OpenAI, T_Org, 90), Cand(N_OpenAI, T_Org, 70)>>, <<>>),
     Chunk(<<Cand(N_OpenAI, T_Org, 90), Cand(N_Open, T_Org, 80)>>,
           <<RelCand(N_OpenAI, N_Open, R_manages, 80), RelCand(N_OpenAI, N_Open, R_manages, 60)>>),
     Chunk(<<Cand(N_OpenAIInc, T_Org, 80)>>, <<>>),
     Chunk(<<Cand(N_OpenAIInk, T_Org, 80)>>, <<>>),
     Chunk(<<Cand(N_OpenAIInk, T_Person, 80)>>, <<>>),
     Chunk(<<CandWith(N_OpenAI, T_Org, 95, K_role :> "company"), CandWith(N_we, T_Org, 70, K_role :> "speaker")>>,
           <<RelCand(N_we, N_OpenAI, R_manages, 80)>>)}

EmptyBatch == [entities |-> <<>>, relationships |-> <<>>, context |-> "general"]

NoMerge == [pc |-> "off", source_id |-> NoneId, target_id |-> NoneId, before |-> {}, skipped |-> 0,
            calls |-> 0, prev |-> "none", raised_at |-> "none", prev_raised_at |-> "none"]

NoCoref == [pc |-> "off", input |-> <<>>, context |-> "general", output |-> <<>>, second |-> <<>>]

NoCall == [pc |-> "off"]

(***************************************************************************)
(* The chunk loop of extract_entities_and_relationships, one caller        *)
(***************************************************************************)
\* the start of a document: the type cache is refreshed from the store
StartDocument(c) ==
    /\ pc[c] = "start"
    /\ \E up \in BOOLEAN :
         /\ ~up => faults < MaxFaults
         /\ faults' = IF up THEN faults ELSE faults + 1
         /\ \E r \in {refresh_type_cache(nodes, edges, up)} :
                /\ entity_types_cache' = r.entity_types
                /\ relationship_types_cache' = r.relationship_types
                /\ cache_updated' = r.updated
    /\ \E context \in (IF config.enable_coreference_resolution THEN DocumentContexts ELSE {EmptyBatch.context}) :
         batch' = [batch EXCEPT ![c] = [EmptyBatch EXCEPT !.context = context]]
    /\ pc' = [pc EXCEPT ![c] = "parse"]
    /\ UNCHANGED <<storeVars, config, attempt, results, saved, chunks, mg, coref, call>>

\* the extractor's response for the next chunk is parsed: types resolved,
\* entities found or created, relationships checked
ParseChunk(c) ==
    /\ pc[c] \in {"parse", "parse_next"}
    /\ chunks < MaxChunks
    /\ \E data \in ChunkInputs, up \in BOOLEAN :
         LET st == [etypes |-> entity_types_cache, rtypes |-> relationship_types_cache,
                    updated |-> cache_updated, nextId |-> nextId,
                    name_to_id |-> [n \in {} |-> NoneId], entities |-> <<>>, relationships |-> <<>>,
                    resolved |-> <<>>, rel_resolved |-> <<>>]
             ctx == [nodes |-> nodes, edges |-> edges, up |-> up, cfg |-> config, document_id |-> DocId]
         IN  \E out \in _parse_gemini_response_with_type_resolution(st, ctx, data) :
                /\ ~up => faults < MaxFaults
                /\ faults' = IF up THEN faults ELSE faults + 1
                /\ entity_types_cache' = out.etypes
                /\ relationship_types_cache' = out.rtypes
                /\ cache_updated' = out.updated
                /\ nextId' = out.nextId
                /\ batch' = [batch EXCEPT ![c] = [entities |-> out.entities, relationships |-> out.relationships,
                                                  context |-> batch[c].context]]
                /\ results' = [results EXCEPT ![c] = [entities |-> out.resolved, relationships |-> out.rel_resolved,
                                                      up |-> up]]
    /\ pc' = [pc EXCEPT ![c] = "coref"]
    /\ chunks' = chunks + 1
    /\ UNCHANGED <<nodes, edges, nextEid, config, attempt, saved, mg, coref, call>>

\* coreference resolution of the chunk's new entities, then on to the save
\* when there is something to save
ApplyCoreference(c) ==
    /\ pc[c] = "coref"
    /\ \E entities \in {IF batch[c].entities # <<>> /\ config.enable_coreference_resolution
                         THEN resolve_coreferences_in_entities(batch[c].entities, batch[c].context)
                         ELSE batch[c].entities} :
           /\ batch' = [batch EXCEPT ![c].entities = entities]
           /\ pc' = [pc EXCEPT ![c] = IF entities # <<>> \/ batch[c].relationships # <<>> THEN "save" ELSE "next"]
    /\ attempt' = [attempt EXCEPT ![c] = 0]
    /\ UNCHANGED <<storeVars, typeVars, config, results, saved, chunks, faults, mg, coref, call>>

\* the stores the writes of a batch leave one after the other: the store
\* before write i, then the store after each write from i on
RECURSIVE WriteSteps(_, _, _, _, _)
WriteSteps(store, up, entities, relationships, i) ==
    IF i > Len(entities) + Len(relationships) THEN <<store>>
    ELSE <<store>> \o WriteSteps(ApplyWrites(store, up, entities, relationships, i, i),
                                 up, entities, relationships, i + 1)

\* the fault a timeout at write k + 1 of n adds to the run's count: none when
\* the write is the one that timed out in the attempt before
NewTimeout(c, k, n) ==
    IF k < n /\ ~(attempt[c] > 0 /\ saved[c].timed_out = k + 1) THEN 1 ELSE 0

\* one attempt of save_to_neo4j: the writes run in order until all are done
\* or one of them exceeds its timeout (the write that timed out may or may
\* not have reached the store); a write whose session fails returns False
\* and the attempt goes on. A write that timed out in the previous attempt
\* and times out again is the same fault going on, not a new one.
SaveAttempt(c) ==
    /\ pc[c] = "save"
    /\ LET entities == batch[c].entities
           relationships == batch[c].relationships
           n == Len(entities) + Len(relationships)
           store == [nodes |-> nodes, edges |-> edges, nextEid |-> nextEid]
       IN  \E reached \in {WriteSteps(store, TRUE, entities, relationships, 1)},
              refused \in {WriteSteps(store, FALSE, entities, relationships, 1)},
              k \in 0..n, landed \in BOOLEAN, up \in BOOLEAN :
             /\ k = n => ~landed
             /\ faults + NewTimeout(c, k, n) + (IF up THEN 0 ELSE 1) <= MaxFaults
             /\ faults' = faults + NewTimeout(c, k, n) + (IF up THEN 0 ELSE 1)
             /\ LET after == (IF up THEN reached ELSE refused)[(IF landed THEN k + 1 ELSE k) + 1]
                    last == k < n /\ attempt[c] + 1 >= max_retries
                IN  /\ nodes' = after.nodes
                    /\ edges' = after.edges
                    /\ nextEid' = after.nextEid
                    /\ attempt' = [attempt EXCEPT ![c] = IF k < n THEN attempt[c] + 1 ELSE attempt[c]]
                    /\ saved' = [saved EXCEPT ![c] = [result |-> IF k = n THEN "True" ELSE IF last THEN "False" ELSE "retry",
                                                       up |-> up, timed_out |-> IF k < n THEN k + 1 ELSE 0]]
                    /\ pc' = [pc EXCEPT ![c] = IF k = n \/ last THEN "next" ELSE "save"]
    /\ UNCHANGED <<nextId, typeVars, config, batch, results, chunks, mg, coref, call>>

\* the extractor's call for the chunk raises: the handler of the chunk loop
\* runs the pattern-based fallback extraction, which no handler protects.
\* When it finds nothing the loop goes on to the next chunk; when it raises
\* in turn the exception leaves process_document and process_documents,
\* neither of which catches it, and the run's entry point returns an empty
\* list: the documents that remain are not processed
FallbackExtraction(c) ==
    /\ pc[c] \in {"parse", "parse_next"}
    /\ chunks < MaxChunks
    /\ faults < MaxFaults
    /\ faults' = faults + 1
    /\ \E raises \in BOOLEAN :
         /\ pc' = [pc EXCEPT ![c] = IF raises THEN "aborted" ELSE "next"]
         /\ results' = [results EXCEPT ![c] = [entities |-> <<>>, relationships |-> <<>>, up |-> ~raises]]
    /\ batch' = [batch EXCEPT ![c] = [EmptyBatch EXCEPT !.context = batch[c].context]]
    /\ chunks' = chunks + 1
    /\ UNCHANGED <<storeVars, typeVars, config, attempt, saved, mg, coref, call>>

\* the loop goes on to the next chunk of the document (parse_next: a parse
\* that follows another in the same document), or the document ends and the
\* next one starts; the chunk's lists and the save's counters are
\* locals that end with the iteration
NextChunk(c) ==
    /\ pc[c] = "next"
    /\ \E nxt \in (IF chunks < MaxChunks THEN {"parse_next", "start"} ELSE {"start"}) : pc' = [pc EXCEPT ![c] = nxt]
    /\ batch' = [batch EXCEPT ![c] = [EmptyBatch EXCEPT !.context = batch[c].context]]
    /\ attempt' = [attempt EXCEPT ![c] = 0]
    /\ saved' = [saved EXCEPT ![c] = [result |-> "none", up |-> TRUE, timed_out |-> 0]]
    /\ UNCHANGED <<storeVars, typeVars, config, results, chunks, faults, mg, coref, call>>

InitStore ==
    /\ nodes = {DocumentNode}
    /\ edges = {}
    /\ nextId = 1
    /\ nextEid = 1
    /\ faults = 0

InitTypes ==
    /\ entity_types_cache = {}
    /\ relationship_types_cache = {}
    /\ cache_updated = FALSE

InitCallers(active) ==
    /\ pc = [c \in Callers |-> IF c \in active THEN "start" ELSE "off"]
    /\ batch = [c \in Callers |-> EmptyBatch]
    /\ attempt = [c \in Callers |-> 0]
    /\ results = [c \in Callers |-> [entities |-> <<>>, relationships |-> <<>>, up |-> TRUE]]
    /\ saved = [c \in Callers |-> [result |-> "none", up |-> TRUE, timed_out |-> 0]]
    /\ chunks = 0

\* one extraction agent processing documents one after the other
Init ==
    /\ InitStore
    /\ InitTypes
    /\ InitCallers({1})
    /\ config \in Configs
    /\ mg = NoMerge
    /\ coref = NoCoref
    /\ call = NoCall

Next ==
    \/ \E c \in Callers : StartDocument(c)
    \/ \E c \in Callers : ParseChunk(c)
    \/ \E c \in Callers : FallbackExtraction(c)
    \/ \E c \in Callers : ApplyCoreference(c)
    \/ \E c \in Callers : SaveAttempt(c)
    \/ \E c \in Callers : NextChunk(c)

Spec == Init /\ [][Next]_vars

(***************************************************************************)
(* Properties of the extraction pipeline                                   *)
(***************************************************************************)
EntityNodes == {n \in nodes : IsEntityNode(n)}

EdgeKey(e) == <<e.src, e.tgt, e.type>>

\* the SequenceMatcher ratio of the two lowered names is exactly pct / 100
NameSimilarityIs(a, b, pct) ==
    /\ RatioDen(Lower(a), Lower(b)) # 0
    /\ 100 * RatioNum(Lower(a), Lower(b)) = pct * RatioDen(Lower(a), Lower(b))

\* the stored entities no other stored entity beats in similarity to the name
BestMatches(name) ==
    {n \in EntityNodes : \A m \in EntityNodes : ~SimilarityGreater(name, m.name, name, n.name)}

\* C1: with entity deduplication enabled and a single caller, no two entity
\* records of the store share (lowercased name, type), duplicates inside one
\* batch included.
C1_NoDuplicateRecords ==
    config.enable_entity_deduplication =>
        \A a, b \in EntityNodes : (Lower(a.name) = Lower(b.name) /\ a.type = b.type) => a = b

\* C4: with relationship deduplication enabled, the store never holds two
\* edges with the same (source id, target id, cleaned type), and a batch whose
\* save succeeded against a reachable store leaves exactly one edge for each
\* of its relationships, however often the batch names it.
C4_OneEdgePerTriple ==
    config.enable_relationship_deduplication =>
        /\ \A e1, e2 \in edges : EdgeKey(e1) = EdgeKey(e2) => e1 = e2
        /\ \A c \in Callers :
             (pc[c] = "next" /\ saved[c].result = "True" /\ saved[c].up) =>
                \A i \in DOMAIN batch[c].relationships :
                    LET r == batch[c].relationships[i]
                        key == <<r.source_entity_id, r.target_entity_id, clean_rel_type(r.relationship_type)>>
                    IN  ((\E n \in nodes : n.id = r.source_entity_id) /\ (\E n \in nodes : n.id = r.target_entity_id))
                            => Cardinality({e \in edges : EdgeKey(e) = key}) = 1

\* a batch naming the same relationship twice was saved, and one edge stands for it
C4_Witness ==
    /\ config.enable_relationship_deduplication
    /\ pc[1] = "next" /\ saved[1].result = "True" /\ saved[1].up
    /\ \E i, j \in DOMAIN batch[1].relationships :
         LET r == batch[1].relationships[i]
             q == batch[1].relationships[j]
         IN  /\ i < j
             /\ r.source_entity_id = q.source_entity_id
             /\ r.target_entity_id = q.target_entity_id
             /\ r.relationship_type = q.relationship_type
             /\ Cardinality({e \in edges : EdgeKey(e) = <<r.source_entity_id, r.target_entity_id,
                                                          clean_rel_type(r.relationship_type)>>}) = 1

\* C5: with entity deduplication enabled, two findOrCreate calls with the
\* same (name, type) return the same id and the second reports isNew = false;
\* stated for two candidates of one response.
C5_SecondCallReuses ==
    config.enable_entity_deduplication =>
        \A c \in Callers : \A i, j \in DOMAIN results[c].entities :
            LET r == results[c].entities[i]
                q == results[c].entities[j]
            IN  (i < j /\ r.name = q.name /\ r.type = q.type) => (q.id = r.id /\ ~q.is_new)

\* C6: a label a resolve call registered (isNew = true) is still in its
\* registry afterwards, whatever refresh ran in between.
C6_RegisteredLabelSurvives ==
    \A c \in Callers :
        /\ \A i \in DOMAIN results[c].entities :
             results[c].entities[i].is_new_type => results[c].entities[i].type \in entity_types_cache
        /\ \A i \in DOMAIN results[c].relationships :
             results[c].relationships[i].is_new_type => results[c].relationships[i].type \in relationship_types_cache

\* C7: neither registry ever holds two labels that are equal ignoring case.
C7_NoCaseVariants ==
    /\ \A a, b \in entity_types_cache : Lower(a) = Lower(b) => a = b
    /\ \A a, b \in relationship_types_cache : Lower(a) = Lower(b) => a = b

\* C9: with the default thresholds, a candidate whose best match has a
\* different type at similarity 0.90 is created new, and a candidate whose
\* best match has its own type at similarity 0.90 reuses that record; stated
\* for lookups that reached the store.
C9_CrossTypeNewSameTypeReused ==
    config.enable_entity_deduplication =>
        \A c \in Callers : (pc[c] = "coref" /\ results[c].up) =>
            \A i \in DOMAIN results[c].entities :
                LET r == results[c].entities[i]
                    best == BestMatches(r.name)
                    same == {n \in best : NameSimilarityIs(r.name, n.name, 90) /\ n.type = r.type}
                IN  /\ (best # {} /\ \A n \in best : NameSimilarityIs(r.name, n.name, 90) /\ n.type # r.type)
                        => r.is_new
                    /\ same # {} => (~r.is_new /\ r.id \in {n.id : n \in same})

\* C10: with the default entity threshold 0.8, a same-type best match at
\* similarity exactly 0.80 is reused, and a candidate no stored entity
\* reaches 0.80 for is created new; stated for lookups that reached the store.
C10_ThresholdBoundary ==
    config.enable_entity_deduplication =>
        \A c \in Callers : (pc[c] = "coref" /\ results[c].up) =>
            \A i \in DOMAIN results[c].entities :
                LET r == results[c].entities[i]
                    best == BestMatches(r.name)
                    same == {n \in best : NameSimilarityIs(r.name, n.name, 80) /\ n.type = r.type}
                IN  /\ same # {} => (~r.is_new /\ r.id \in {n.id : n \in same})
                    /\ (EntityNodes # {} /\ \A n \in EntityNodes : ~SimilarityAtLeast(r.name, n.name, 80))
                        => r.is_new

(***************************************************************************)
(* Coreference resolution on its own: a list of entities and a document    *)
(* context go through resolve_coreferences_in_entities                     *)
(***************************************************************************)
\* the longest entity list the resolver is given
MaxCorefLen == 3

\* the (name, type, confidence, role property) of the entities the lists
\* are drawn from
CorefPool ==
    {<<N_we, T_Org, 95, "speaker">>, <<N_OpenAI, T_Org, 90, "company">>, <<N_the_company, T_Org, 70, "mention">>,
     <<N_they, T_Org, 50, "group">>, <<N_Alice, T_Person, 80, "person">>, <<N_Company, T_Org, 85, "firm">>}

\* Entity objects as the parse builds them, ids in list order
CorefEntities(picks) ==
    [i \in DOMAIN picks |->
        [id |-> i, name |-> picks[i][1], entity_type |-> picks[i][2], document_id |-> DocId,
         properties |-> (K_role :> picks[i][4]), confidence_score |-> picks[i][3]]]

CorefInputs == UNION {{CorefEntities(picks) : picks \in [1..n -> CorefPool]} : n \in 1..MaxCorefLen}

InitCoref ==
    /\ InitStore
    /\ InitTypes
    /\ InitCallers({})
    /\ config = Config(TRUE, TRUE, TRUE)
    /\ mg = NoMerge
    /\ call = NoCall
    /\ \E input \in CorefInputs, context \in DocumentContexts :
         coref = [pc |-> "ready", input |-> input, context |-> context, output |-> <<>>, second |-> <<>>]

ResolveCoreferences ==
    /\ coref.pc = "ready"
    /\ coref' = [coref EXCEPT !.pc = "resolved",
                              !.output = resolve_coreferences_in_entities(coref.input, coref.context)]
    /\ UNCHANGED <<storeVars, typeVars, callerVars, config, faults, mg, call>>

\* the resolver is given its own output, with the same document context
ResolveCoreferencesAgain ==
    /\ coref.pc = "resolved"
    /\ coref' = [coref EXCEPT !.pc = "again",
                              !.second = resolve_coreferences_in_entities(coref.output, coref.context)]
    /\ UNCHANGED <<storeVars, typeVars, callerVars, config, faults, mg, call>>

NextCoref ==
    \/ ResolveCoreferences
    \/ ResolveCoreferencesAgain

SpecCoref == InitCoref /\ [][NextCoref]_vars

\* a name that is a pronoun or a generic reference, as the resolver tests it
IsPronounOrGeneric(name) ==
    IsPronoun(Lower(Strip(name))) \/ _check_generic_reference(Lower(Strip(name))) # ""

\* C2: the resolver's output holds no entity whose name is a pronoun or a
\* generic reference: each was replaced by its antecedent or dropped.
C2_NoPronounInOutput ==
    coref.pc = "resolved" => \A i \in DOMAIN coref.output : ~IsPronounOrGeneric(coref.output[i].name)

(***************************************************************************)
(* CoreferenceResolver._merge_entities: three statements, each run and     *)
(* committed on its own                                                    *)
(***************************************************************************)
\* the rows of a transfer statement in a fixed order: the place of row r
RowIndex(rows, r) == Cardinality({x \in rows : x.eid < r.eid})

\* CREATE (..)-[new_r:RELATIONSHIP]->(..) SET new_r = properties(r),
\* new_r.merged_from = $source_id
MergedEdge(r, eid, src, tgt, source_id) ==
    [eid |-> eid, src |-> src, tgt |-> tgt, type |-> L_RELATIONSHIP,
     confidence |-> r.confidence, props |-> r.props, merged_from |-> source_id]

\* the rows MATCH ... MATCH ... WHERE source <> new_source leaves: none
\* when the target node is missing or is the source node itself
TransferRows(ns, matched, source_id, target_id) ==
    IF (\E n \in ns : n.id = target_id) /\ source_id # target_id THEN matched ELSE {}

\* the first statement: every relationship leaving the source is re-created
\* from the target and deleted
transfer_outgoing(ns, es, eid, source_id, target_id) ==
    LET matched == {r \in es : r.src = source_id}
        rows == TransferRows(ns, matched, source_id, target_id)
    IN  [edges |-> (es \ rows) \cup {MergedEdge(r, eid + RowIndex(rows, r), target_id, r.tgt, source_id) : r \in rows},
         nextEid |-> eid + Cardinality(rows),
         skipped |-> IF \E n \in ns : n.id = target_id THEN Cardinality(matched \ rows) ELSE 0]

\* the second statement with the CREATE left out: the relationships
\* entering the source are deleted and not re-created
transfer_incoming_dropping(ns, es, eid, source_id, target_id) ==
    LET matched == {r \in es : r.tgt = source_id}
        rows == TransferRows(ns, matched, source_id, target_id)
    IN  [edges |-> es \ rows,
         nextEid |-> eid,
         skipped |-> IF \E n \in ns : n.id = target_id THEN Cardinality(matched \ rows) ELSE 0]

\* the second statement: every relationship entering the source is
\* re-created into the target and deleted
transfer_incoming(ns, es, eid, source_id, target_id) ==
    LET matched == {r \in es : r.tgt = source_id}
        rows == TransferRows(ns, matched, source_id, target_id)
    IN  [edges |-> (es \ rows) \cup {MergedEdge(r, eid + RowIndex(rows, r), r.src, target_id, source_id) : r \in rows},
         nextEid |-> eid + Cardinality(rows),
         skipped |-> IF \E n \in ns : n.id = target_id THEN Cardinality(matched \ rows) ELSE 0]

\* the third statement: DELETE source; the store refuses to delete a node
\* that still has relationships
delete_source(ns, es, source_id) ==
    IF \E r \in es : r.src = source_id \/ r.tgt = source_id
    THEN [nodes |-> ns, ok |-> FALSE]
    ELSE [nodes |-> {n \in ns : n.id # source_id}, ok |-> TRUE]

\* the three statements of _merge_entities run one after the other without
\* an error: the graph they leave and whether the call returns True
_merge_entities(ns, es, eid, source_id, target_id) ==
    LET o == transfer_outgoing(ns, es, eid, source_id, target_id)
        i == transfer_incoming(ns, o.edges, o.nextEid, source_id, target_id)
        d == delete_source(ns, i.edges, source_id)
    IN  [nodes |-> d.nodes, edges |-> i.edges, ok |-> d.ok]

\* relationships in the graph a merge starts on
MaxMergeEdges == 3

\* calls of _merge_entities with the same arguments, one after the other
MaxMergeCalls == 2

MergeIds == {1, 2, 3}

MergeNode(id, name) ==
    [id |-> id, label |-> _sanitize_label(T_Org), name |-> name, type |-> T_Org, confidence |-> 80,
     document_id |-> DocId, props |-> EmptyProps]

MergeNodes == {DocumentNode, MergeNode(1, N_we), MergeNode(2, N_OpenAI), MergeNode(3, N_Open)}

MergeEdges(ends) ==
    {[eid |-> i, src |-> ends[i][1], tgt |-> ends[i][2], type |-> clean_rel_type(R_manages),
      confidence |-> 80, props |-> EmptyProps, merged_from |-> NoneId] : i \in DOMAIN ends}

InitMerge ==
    /\ InitTypes
    /\ InitCallers({})
    /\ config = Config(TRUE, TRUE, TRUE)
    /\ coref = NoCoref
    /\ call = NoCall
    /\ faults = 0
    /\ nodes = MergeNodes
    /\ nextId = 4
    /\ \E n \in 0..MaxMergeEdges : \E ends \in [1..n -> MergeIds \X MergeIds] :
         /\ edges = MergeEdges(ends)
         /\ nextEid = n + 1
         /\ \E target_id \in {1, 2} :
              mg = [pc |-> "outgoing", source_id |-> 1, target_id |-> target_id,
                    before |-> MergeEdges(ends), skipped |-> 0,
                    calls |-> 1, prev |-> "none", raised_at |-> "none", prev_raised_at |-> "none"]

MergeOutgoing ==
    /\ mg.pc = "outgoing"
    /\ LET r == transfer_outgoing(nodes, edges, nextEid, mg.source_id, mg.target_id)
       IN  /\ edges' = r.edges
           /\ nextEid' = r.nextEid
           /\ mg' = [mg EXCEPT !.pc = "incoming", !.skipped = mg.skipped + r.skipped]
    /\ UNCHANGED <<nodes, nextId, typeVars, callerVars, config, faults, coref, call>>

MergeIncoming ==
    /\ mg.pc = "incoming"
    /\ LET r == transfer_incoming(nodes, edges, nextEid, mg.source_id, mg.target_id)
       IN  /\ edges' = r.edges
           /\ nextEid' = r.nextEid
           /\ mg' = [mg EXCEPT !.pc = "delete", !.skipped = mg.skipped + r.skipped]
    /\ UNCHANGED <<nodes, nextId, typeVars, callerVars, config, faults, coref, call>>

MergeDelete ==
    /\ mg.pc = "delete"
    /\ LET r == delete_source(nodes, edges, mg.source_id)
       IN  /\ nodes' = r.nodes
           /\ mg' = [mg EXCEPT !.pc = IF r.ok THEN "done" ELSE "failed"]
    /\ UNCHANGED <<edges, nextId, nextEid, typeVars, callerVars, config, faults, coref, call>>

\* a statement raises with its CREATE committed and its DELETE undone: the
\* relationships it matched are in the graph twice
MergeError_half_committed ==
    /\ mg.pc \in {"outgoing", "incoming", "delete"}
    /\ faults < MaxFaults
    /\ faults' = faults + 1
    /\ LET r == IF mg.pc = "outgoing"
                THEN transfer_outgoing(nodes, edges, nextEid, mg.source_id, mg.target_id)
                ELSE IF mg.pc = "incoming"
                THEN transfer_incoming(nodes, edges, nextEid, mg.source_id, mg.target_id)
                ELSE [edges |-> edges, nextEid |-> nextEid]
       IN  /\ edges' = edges \cup r.edges
           /\ nextEid' = r.nextEid
    /\ mg' = [mg EXCEPT !.pc = "failed", !.raised_at = mg.pc]
    /\ UNCHANGED <<nodes, nextId, typeVars, callerVars, config, coref, call>>

\* a statement raises (the store is unreachable): the statement is rolled
\* back, the except branch returns False and what the earlier statements
\* committed stays
MergeError ==
    /\ mg.pc \in {"outgoing", "incoming", "delete"}
    /\ faults < MaxFaults
    /\ faults' = faults + 1
    /\ mg' = [mg EXCEPT !.pc = "failed", !.raised_at = mg.pc]
    /\ UNCHANGED <<storeVars, typeVars, callerVars, config, coref, call>>

\* the caller invokes _merge_entities again with the same arguments, after a
\* call that returned True or after one that returned False
MergeAgain ==
    /\ mg.pc \in {"done", "failed"}
    /\ mg.calls < MaxMergeCalls
    /\ mg' = [mg EXCEPT !.pc = "outgoing", !.calls = mg.calls + 1, !.prev = mg.pc,
                        !.prev_raised_at = mg.raised_at, !.raised_at = "none"]
    /\ UNCHANGED <<storeVars, typeVars, callerVars, config, faults, coref, call>>

NextMerge ==
    \/ MergeOutgoing
    \/ MergeIncoming
    \/ MergeDelete
    \/ MergeError
    \/ MergeAgain

SpecMerge == InitMerge /\ [][NextMerge]_vars

\* the relationships with the node at one end or at both
Incident(es, id) == Cardinality({e \in es : e.src = id \/ e.tgt = id})

\* the relationships running between the two nodes, in either direction
Between(es, a, b) == Cardinality({e \in es : (e.src = a /\ e.tgt = b) \/ (e.src = b /\ e.tgt = a)})

MergeCompleted == mg.pc = "done" /\ mg.source_id # mg.target_id

InitConcurrent ==
    /\ InitStore
    /\ InitTypes
    /\ InitCallers(Callers)
    /\ config = Config(TRUE, TRUE, TRUE)
    /\ mg = NoMerge
    /\ coref = NoCoref
    /\ call = NoCall

\* the steps of the chunk loop while the store stays reachable and no write
\* times out
NextConcurrent ==
    \/ \E c \in Callers : StartDocument(c) /\ faults' = faults
    \/ \E c \in Callers : ParseChunk(c) /\ faults' = faults
    \/ \E c \in Callers : ApplyCoreference(c)
    \/ \E c \in Callers : SaveAttempt(c) /\ faults' = faults
    \/ \E c \in Callers : NextChunk(c)

SpecConcurrent == InitConcurrent /\ [][NextConcurrent]_vars

\* the two records were created by different callers, each as a new entity
CreatedByDifferentCallers(a, b) ==
    \E c, d \in Callers :
        /\ c # d
        /\ \E i \in DOMAIN results[c].entities : results[c].entities[i].is_new /\ results[c].entities[i].id = a.id
        /\ \E j \in DOMAIN results[d].entities : results[d].entities[j].is_new /\ results[d].entities[j].id = b.id

\* C8: with entity deduplication enabled, two concurrent callers of
\* findOrCreate with the same (name, type) never leave two records for it in
\* the store; stated for runs without a store fault.
C8_NoConcurrentDuplicates ==
    (config.enable_entity_deduplication /\ faults = 0) =>
        \A a, b \in EntityNodes :
            (a.name = b.name /\ a.type = b.type /\ CreatedByDifferentCallers(a, b)) => a = b

(***************************************************************************)
(* Properties of reuse: what a matched record keeps and what it takes      *)
(***************************************************************************)
Max(S) == CHOOSE x \in S : \A y \in S : y <= x

\* the entries of the caller's last parse that reused the stored record id
ReusesOf(c, id) ==
    {i \in DOMAIN results[c].entities : ~results[c].entities[i].is_new /\ results[c].entities[i].id = id}

\* the caller has finished a chunk and no store fault occurred in the run
ChunkDone(c) == pc[c] = "next" /\ faults = 0

\* C11: once a chunk whose candidates reused a stored entity is handled, the
\* confidence stored for that entity is the maximum of the confidence it had
\* and the confidences of the candidates that reused it; stated for runs
\* without a store fault.
C11_ReuseKeepsMaxConfidence ==
    config.enable_entity_deduplication =>
        \A c \in Callers : ChunkDone(c) =>
            \A i \in DOMAIN results[c].entities :
                LET r == results[c].entities[i]
                IN  \A old \in r.found : \A n \in nodes :
                        (n.id = old.id /\ n.label = old.label) =>
                            n.confidence = Max({old.confidence} \cup
                                               {results[c].entities[j].confidence : j \in ReusesOf(c, r.id)})

\* C12: a property value present on a stored entity is never overwritten by
\* a later candidate that matches the entity: a reused record keeps every
\* value it had, and of several entities of a batch persisted under one id
\* (a pronoun that coreference resolution rewrote to its antecedent's id) the
\* first value written for a key is the one that stays; stated for runs
\* without a store fault.
C12_PresentPropertyKept ==
    \A c \in Callers : ChunkDone(c) =>
        /\ \A i \in DOMAIN results[c].entities : \A old \in results[c].entities[i].found : \A n \in nodes :
               (n.id = old.id /\ n.label = old.label) =>
                   \A k \in DOMAIN old.props : k \in DOMAIN n.props /\ n.props[k] = old.props[k]
        /\ \A i \in DOMAIN batch[c].entities :
               LET e == batch[c].entities[i]
                   first(k) == \A j \in 1..(i - 1) :
                                   batch[c].entities[j].id = e.id => k \notin DOMAIN SafeProps(batch[c].entities[j].properties)
               IN  \A k \in DOMAIN SafeProps(e.properties) : \A n \in nodes :
                       (first(k) /\ n.id = e.id) => n.props[k] = SafeProps(e.properties)[k]

\* the store's key of a relationship of a batch
RelKey(r) == <<r.source_entity_id, r.target_entity_id, clean_rel_type(r.relationship_type)>>

\* C13: with relationship deduplication enabled, once a chunk is handled the
\* edge of each (source, target, type) its batch created carries the
\* confidence and the properties of the first request for it; a later request
\* for the same edge has changed neither. Stated for runs without a store
\* fault.
C13_FirstWriterWins ==
    config.enable_relationship_deduplication =>
        \A c \in Callers : ChunkDone(c) =>
            \A i \in DOMAIN batch[c].relationships :
                LET r == batch[c].relationships[i]
                    first == \A j \in 1..(i - 1) : RelKey(batch[c].relationships[j]) # RelKey(r)
                IN  first => \A e \in edges :
                        EdgeKey(e) = RelKey(r) =>
                            (e.confidence = r.confidence_score /\ e.props = SafeProps(r.properties))

\* C14: with relationship deduplication disabled every creation request adds
\* an edge: once a chunk is handled, the store holds at least as many edges
\* of a (source, target, type) as the chunk's batch requested for it. Stated
\* for runs without a store fault and for endpoints that exist.
C14_EveryRequestAddsAnEdge ==
    ~config.enable_relationship_deduplication =>
        \A c \in Callers : ChunkDone(c) =>
            \A i \in DOMAIN batch[c].relationships :
                LET r == batch[c].relationships[i]
                    requests == {j \in DOMAIN batch[c].relationships : RelKey(batch[c].relationships[j]) = RelKey(r)}
                IN  ((\E n \in nodes : n.id = r.source_entity_id) /\ (\E n \in nodes : n.id = r.target_entity_id))
                        => Cardinality({e \in edges : EdgeKey(e) = RelKey(r)}) >= Cardinality(requests)

(***************************************************************************)
(* Properties of save_to_neo4j and of the run's error handling             *)
(***************************************************************************)
\* the entity, the relationship of a batch is in the store
EntityWritten(e) == \E n \in nodes : n.id = e.id /\ n.name = e.name

RelationshipWritten(r) == \E e \in edges : EdgeKey(e) = RelKey(r)

\* C15: a batch is attempted at most max_retries times; save_to_neo4j
\* returns True only if every entity and every relationship of the batch is
\* in the store, and returns False only after the last attempt.
C15_TrueOnlyIfAllWritten ==
    \A c \in Callers :
        /\ attempt[c] <= max_retries
        /\ (pc[c] = "next" /\ saved[c].result = "False") => attempt[c] = max_retries
        /\ (pc[c] = "next" /\ saved[c].result = "True") =>
               /\ \A i \in DOMAIN batch[c].entities : EntityWritten(batch[c].entities[i])
               /\ \A i \in DOMAIN batch[c].relationships : RelationshipWritten(batch[c].relationships[i])

\* the items of a batch in the order save_to_neo4j writes them
BatchItemWritten(c, j) ==
    IF j <= Len(batch[c].entities)
    THEN EntityWritten(batch[c].entities[j])
    ELSE RelationshipWritten(batch[c].relationships[j - Len(batch[c].entities)])

\* C16: when one write of a batch fails on every attempt (the run's only
\* store fault), every other entity of the batch is in the store after
\* save_to_neo4j has returned, and every other relationship whose two
\* endpoints are.
C16_OthersStillPersisted ==
    \A c \in Callers :
        (pc[c] = "next" /\ saved[c].result = "False" /\ faults = 1) =>
            \A j \in 1..(Len(batch[c].entities) + Len(batch[c].relationships)) :
                LET isRel == j > Len(batch[c].entities)
                    r == batch[c].relationships[j - Len(batch[c].entities)]
                    ends == (\E n \in nodes : n.id = r.source_entity_id) /\ (\E n \in nodes : n.id = r.target_entity_id)
                IN  (j # saved[c].timed_out /\ (isRel => ends)) => BatchItemWritten(c, j)


(***************************************************************************)
(* Errors raised while a chunk is handled                                  *)
(***************************************************************************)
\* C17: an error raised while a candidate, a chunk or a document is handled
\* never aborts the run: no caller's run is left by an exception while
\* chunks and documents remain to be processed
C17_ErrorNeverAborts ==
    \A c \in Callers : pc[c] # "aborted"


(***************************************************************************)
(* _merge_entities called again with the same arguments                    *)
(***************************************************************************)
\* a relationship without the identity the store gave it
Unidentified(e) ==
    [src |-> e.src, tgt |-> e.tgt, type |-> e.type, confidence |-> e.confidence,
     props |-> e.props, merged_from |-> e.merged_from]

\* how many relationships of the graph are alike, for each kind of them
EdgeCounts(es) ==
    [k \in {Unidentified(e) : e \in es} |-> Cardinality({e \in es : Unidentified(e) = k})]

\* the graph one uninterrupted merge of the starting graph leaves
Uninterrupted == _merge_entities(MergeNodes, mg.before, Cardinality(mg.before) + 1, mg.source_id, mg.target_id)

\* C18: re-invoking merge(source, target) is safe. A call made after a
\* completed merge, or after a merge interrupted between its statements,
\* that runs to its end leaves the graph one uninterrupted merge leaves, no
\* edge duplicated or dropped; and a call made after a completed merge does
\* not fail unless the store raises.
C18_ReinvocationSafe ==
    mg.calls >= 2 =>
        /\ mg.pc = "done" =>
              /\ nodes = Uninterrupted.nodes
              /\ EdgeCounts(edges) = EdgeCounts(Uninterrupted.edges)
        /\ (mg.pc = "failed" /\ mg.prev = "done") => mg.raised_at # "none"

\* a second call completed after a first one that was interrupted after its
\* first statement, on a graph where the source had a relationship leaving
\* it and one entering it from elsewhere
C18_Witness ==
    /\ mg.calls = 2
    /\ mg.pc = "done"
    /\ mg.prev = "failed"
    /\ mg.prev_raised_at = "incoming"
    /\ mg.source_id # mg.target_id
    /\ \E e \in mg.before : e.src = mg.source_id /\ e.tgt \notin {mg.source_id, mg.target_id}
    /\ \E e \in mg.before : e.tgt = mg.source_id /\ e.src \notin {mg.source_id, mg.target_id}
    /\ Cardinality({e \in edges : e.merged_from = mg.source_id}) >= 2


(***************************************************************************)
(* Resolution of a label that is registered up to letter case              *)
(***************************************************************************)
\* C19: resolving a proposed entity label that equals a registered label up
\* to letter case returns a registered label, exactly as stored and equal to
\* the proposed one up to case, with is_new false, and leaves the registry
\* as it was.
C19_CaseVariantResolvesToStored ==
    \A c \in Callers : \A i \in DOMAIN results[c].entities :
        LET r == results[c].entities[i]
        IN  (\E t \in r.registry : Lower(t) = Lower(r.proposed_type)) =>
                /\ r.type \in r.registry
                /\ Lower(r.type) = Lower(r.proposed_type)
                /\ ~r.is_new_type
                /\ r.registry_after = r.registry

\* a candidate proposed with a label whose registered form differs in case
\* was resolved to the registered form
C19_Witness ==
    \E c \in Callers : \E i \in DOMAIN results[c].entities :
        LET r == results[c].entities[i]
        IN  /\ r.proposed_type \notin r.registry
            /\ r.type \in r.registry
            /\ r.type # r.proposed_type
            /\ Lower(r.type) = Lower(r.proposed_type)


(***************************************************************************)
(* The resolver applied to its own output                                  *)
(***************************************************************************)
\* C20: applying the coreference normalization to its own output, with the
\* same document context, is a no-op: the second run returns the list it
\* was given, unchanged.
C20_SecondRunIsNoOp ==
    coref.pc = "again" => coref.second = coref.output

\* a second run on the output of a first run that replaced a pronoun or a
\* generic reference by its antecedent
C20_Witness ==
    /\ coref.pc = "again"
    /\ \E i \in DOMAIN coref.input :
          /\ IsPronounOrGeneric(coref.input[i].name)
          /\ ~IsPronounOrGeneric(coref.output[i].name)


(***************************************************************************)
(* The edges a merge rewires                                               *)
(***************************************************************************)
\* C21: after a completed merge(source, target) of distinct nodes, no edge
\* the merge produced is a self-loop on target: the edges that ran between
\* source and target were skipped, not rewired.
C21_NoSelfLoopOnTarget ==
    MergeCompleted =>
        ~\E e \in edges : e.merged_from = mg.source_id /\ e.src = mg.target_id /\ e.tgt = mg.target_id

\* C22: after a completed merge(source, target) of distinct nodes, every edge
\* the merge produced has the relationship type, the confidence and the
\* properties of an edge that was at the source before, with the source
\* endpoint replaced by target.
C22_RewiredEdgeKeepsType ==
    MergeCompleted =>
        \A e \in edges : e.merged_from = mg.source_id =>
            \E r \in mg.before :
                /\ r.src = mg.source_id \/ r.tgt = mg.source_id
                /\ e.type = r.type
                /\ e.props = r.props
                /\ e.confidence = r.confidence
                /\ e.src = (IF r.src = mg.source_id THEN mg.target_id ELSE r.src)
                /\ e.tgt = (IF r.tgt = mg.source_id THEN mg.target_id ELSE r.tgt)


(***************************************************************************)
(* One call of _find_or_create_entity against a store that already holds   *)
(* entities                                                                *)
(***************************************************************************)
FindNode(id, name, type) ==
    [id |-> id, label |-> _sanitize_label(type), name |-> name, type |-> type, confidence |-> 80,
     document_id |-> DocId, props |-> EmptyProps]

FindPool == {FindNode(1, N_OpenAI, T_Org), FindNode(2, N_OpenAIInc, T_Org), FindNode(3, N_OpenAI, T_Person)}

FindNames == {N_OpenAI, N_Openai, N_OpenAIInk, N_Alice}

\* what the store does with the exact lookup: it answers, it refuses the
\* session (the manager catches that and returns None), or it takes longer
\* than the five seconds of asyncio.wait_for
Lookups == {"answers", "refused", "timeout"}

\* _find_or_create_entity with the timeout of its first lookup: the
\* asyncio.TimeoutError leaves the try block for the except branch, which
\* returns a new uuid
_find_or_create_entity_wait_for(ns, lookup, cfg, entity_name, entity_type, uuid) ==
    IF cfg.enable_entity_deduplication /\ lookup = "timeout"
    THEN {[id |-> uuid, is_new |-> TRUE]}
    ELSE _find_or_create_entity(ns, lookup # "refused", cfg, entity_name, entity_type, uuid)

InitFind ==
    /\ InitTypes
    /\ InitCallers({})
    /\ config \in Configs
    /\ mg = NoMerge
    /\ coref = NoCoref
    /\ faults = 0
    /\ edges = {}
    /\ nextEid = 1
    /\ nextId = 4
    /\ \E stored \in SUBSET FindPool : nodes = {DocumentNode} \cup stored
    /\ \E entity_name \in FindNames, entity_type \in {T_Org, T_Person}, lookup \in Lookups :
         call = [pc |-> "ready", entity_name |-> entity_name, entity_type |-> entity_type,
                 lookup |-> lookup, id |-> NoneId, is_new |-> FALSE]

FindOrCreateEntity ==
    /\ call.pc = "ready"
    /\ \E r \in _find_or_create_entity_wait_for(nodes, call.lookup, config, call.entity_name,
                                                 call.entity_type, nextId) :
         /\ call' = [call EXCEPT !.pc = "returned", !.id = r.id, !.is_new = r.is_new]
         /\ nextId' = IF r.is_new THEN nextId + 1 ELSE nextId
    /\ UNCHANGED <<nodes, edges, nextEid, typeVars, callerVars, config, faults, mg, coref>>

NextFind == FindOrCreateEntity

SpecFind == InitFind /\ [][NextFind]_vars

\* the stored entities of the candidate's type whose name is at least as
\* similar to the candidate's as the same-type threshold asks
SameTypeMatches ==
    {n \in EntityNodes : /\ n.type = call.entity_type
                         /\ SimilarityAtLeast(n.name, call.entity_name, config.entity_similarity_threshold)}

\* C23: when the exact lookup of a findOrCreate call fails by timing out, the
\* cascade goes on to the fuzzy steps, so a stored entity of the same type
\* whose name is similar enough is reused: the call does not return a new
\* identifier
C23_FailedExactLookupStillReuses ==
    (call.pc = "returned" /\ config.enable_entity_deduplication /\ call.lookup = "timeout"
        /\ SameTypeMatches # {})
        => (~call.is_new /\ call.id \in {n.id : n \in SameTypeMatches})



\* the names of a list of entities
NamesOf(entities) == {entities[i].name : i \in DOMAIN entities}

\* C24: coreference normalization comes before type resolution and before
\* findOrCreate: the candidates a chunk's parse has given a type and an
\* identifier are already normalized, so normalization would rewrite none of
\* their names
C24_NormalizedBeforeResolution ==
    \A c \in Callers :
        (pc[c] = "coref" /\ config.enable_coreference_resolution /\ batch[c].entities # <<>>)
            => NamesOf(batch[c].entities)
                   \subseteq NamesOf(resolve_coreferences_in_entities(batch[c].entities, batch[c].context))



(***************************************************************************)
(* Two concurrent calls of TypeManager.resolve_entity_type on one type     *)
(* manager: each call runs from one await to the next without interruption *)
(***************************************************************************)
ProposedTypes == {T_Org, T_ORG, T_Person}

NoResult == [type |-> <<>>, is_new |-> FALSE]

InitResolve ==
    /\ InitCallers({})
    /\ config = Config(TRUE, TRUE, TRUE)
    /\ mg = NoMerge
    /\ coref = NoCoref
    /\ faults = 0
    /\ edges = {}
    /\ nextEid = 1
    /\ nextId = 4
    /\ \E stored \in SUBSET FindPool : nodes = {DocumentNode} \cup stored
    /\ relationship_types_cache = {}
    /\ cache_updated \in BOOLEAN
    /\ entity_types_cache = IF cache_updated THEN get_existing_entity_types(nodes, TRUE) ELSE {}
    /\ \E proposed \in [Callers -> ProposedTypes] :
         call = [pc |-> [c \in Callers |-> "ready"], proposed_type |-> proposed,
                 returned |-> [c \in Callers |-> NoResult]]

\* from the exact-match loop to the return: no await in between
ResolveOnCache(c) ==
    \E r \in resolve_type(entity_types_cache, call.proposed_type[c]) :
        /\ entity_types_cache' = r.cache
        /\ call' = [call EXCEPT !.pc[c] = "returned",
                                !.returned[c] = [type |-> r.type, is_new |-> r.is_new]]

\* resolve_entity_type up to its first await
ResolveEntityType(c) ==
    /\ call.pc[c] = "ready"
    /\ IF cache_updated
       THEN ResolveOnCache(c)
       ELSE /\ call' = [call EXCEPT !.pc[c] = "entity_types"]
            /\ UNCHANGED entity_types_cache
    /\ UNCHANGED <<storeVars, relationship_types_cache, cache_updated, callerVars, config, faults, mg, coref>>

\* refresh_type_cache resumed after get_existing_entity_types
RefreshEntityTypes(c) ==
    /\ call.pc[c] = "entity_types"
    /\ entity_types_cache' = get_existing_entity_types(nodes, TRUE)
    /\ call' = [call EXCEPT !.pc[c] = "relationship_types"]
    /\ UNCHANGED <<storeVars, relationship_types_cache, cache_updated, callerVars, config, faults, mg, coref>>

\* refresh_type_cache resumed after get_existing_relationship_types, and the
\* rest of resolve_entity_type
RefreshRelationshipTypes(c) ==
    /\ call.pc[c] = "relationship_types"
    /\ relationship_types_cache' = get_existing_relationship_types(edges, TRUE)
    /\ cache_updated' = TRUE
    /\ ResolveOnCache(c)
    /\ UNCHANGED <<storeVars, callerVars, config, faults, mg, coref>>

NextResolve ==
    \/ \E c \in Callers : ResolveEntityType(c)
    \/ \E c \in Callers : RefreshEntityTypes(c)
    \/ \E c \in Callers : RefreshRelationshipTypes(c)

SpecResolve == InitResolve /\ [][NextResolve]_vars

\* both calls have returned, they proposed the same label, and the store
\* held no label that one matches
SameUnknownLabelResolved ==
    /\ \A c \in Callers : call.pc[c] = "returned"
    /\ call.proposed_type[1] = call.proposed_type[2]
    /\ \A r \in resolve_type(get_existing_entity_types(nodes, TRUE), call.proposed_type[1]) : r.is_new

\* C25: when two callers resolve the same unknown type label concurrently,
\* the load of the registry included, exactly one of them is told the label
\* is new, both are given the same label, and the registry holds one entry
\* for it
C25_ExactlyOneIsNew ==
    SameUnknownLabelResolved =>
        /\ Cardinality({c \in Callers : call.returned[c].is_new}) = 1
        /\ call.returned[1].type = call.returned[2].type
        /\ Cardinality({t \in entity_types_cache : Lower(t) = Lower(call.proposed_type[1])}) = 1



(***************************************************************************)
(* One call of TypeManager.resolve_entity_type on a loaded registry whose  *)
(* labels were registered one after the other                              *)
(***************************************************************************)
MaxRegistered == 3

RegisteredLabels == {T_Org, T_Orgs, T_Orga, T_Person}

\* the orders in which distinct labels may have been registered
Registrations ==
    UNION {{r \in [1..n -> RegisteredLabels] : \A i, j \in 1..n : i # j => r[i] # r[j]} : n \in 0..MaxRegistered}

InitType ==
    /\ InitCallers({})
    /\ config = Config(TRUE, TRUE, TRUE)
    /\ mg = NoMerge
    /\ coref = NoCoref
    /\ InitStore
    /\ relationship_types_cache = {}
    /\ cache_updated = TRUE
    /\ \E registered \in Registrations, proposed_type \in RegisteredLabels \cup {T_ORG} :
         /\ entity_types_cache = {registered[i] : i \in DOMAIN registered}
         /\ call = [pc |-> "ready", registered |-> registered, proposed_type |-> proposed_type,
                    returned |-> NoResult]

ResolveType ==
    /\ call.pc = "ready"
    /\ \E r \in resolve_type(entity_types_cache, call.proposed_type) :
         /\ entity_types_cache' = r.cache
         /\ call' = [call EXCEPT !.pc = "returned", !.returned = [type |-> r.type, is_new |-> r.is_new]]
    /\ UNCHANGED <<storeVars, relationship_types_cache, cache_updated, callerVars, config, faults, mg, coref>>

NextType == ResolveType

SpecType == InitType /\ [][NextType]_vars

\* the registered labels no registered label beats in similarity to the
\* proposed one, among those at or above the threshold
BestRegistered ==
    LET labels == {call.registered[i] : i \in DOMAIN call.registered}
        similar == {t \in labels : SimilarityAtLeast(call.proposed_type, t, similarity_threshold)}
    IN  {t \in similar : \A u \in similar : ~SimilarityGreater(call.proposed_type, u, call.proposed_type, t)}

RegisteredAt(label) == CHOOSE i \in DOMAIN call.registered : call.registered[i] = label

NoExactLabel ==
    \A i \in DOMAIN call.registered : Lower(call.registered[i]) # Strip(Lower(call.proposed_type))

\* C26: when no registered label equals the proposed one up to case and some
\* registered label is similar enough, resolve returns, as not new, a label
\* of highest similarity, and among several such labels the one registered
\* earliest
C26_BestSimilarEarliestRegistered ==
    (call.pc = "returned" /\ NoExactLabel /\ BestRegistered # {})
        => /\ ~call.returned.is_new
           /\ call.returned.type \in BestRegistered
           /\ \A t \in BestRegistered : RegisteredAt(call.returned.type) <= RegisteredAt(t)



\* the entities a parse created that carry the name and the type
CreatedAs(resolved, name, type) ==
    {resolved[i].id : i \in {k \in DOMAIN resolved : /\ resolved[k].is_new
                                                     /\ resolved[k].name = name
                                                     /\ resolved[k].type = type}}

\* C27: chunk k + 1 of a document is parsed after the results of chunk k
\* were saved, so a candidate of chunk k + 1 with the name and type of an
\* entity created for chunk k is given the id of such an entity and is not
\* new, and a type label registered for chunk k is not registered again
C27_NextChunkReuses ==
    [][\A c \in Callers :
          (pc[c] = "parse_next" /\ pc'[c] = "coref") =>
              \A j \in DOMAIN results'[c].entities :
                  LET q == results'[c].entities[j]
                      created == CreatedAs(results[c].entities, q.name, q.type)
                  IN  /\ (config.enable_entity_deduplication /\ ~IsPronounOrGeneric(q.name) /\ created # {})
                         => (q.id \in created /\ ~q.is_new)
                      /\ \A i \in DOMAIN results[c].entities :
                           LET r == results[c].entities[i]
                           IN  (r.is_new_type /\ q.proposed_type = r.proposed_type)
                                  => (q.type = r.type /\ ~q.is_new_type)]_vars



(***************************************************************************)
(* The antecedent the resolver chooses                                     *)
(***************************************************************************)
\* the category a referring name stands for: the pronoun's, or the generic
\* pattern's; "" for a name that refers to nothing
ReferringCategory(name) ==
    LET lower == Lower(Strip(name))
    IN  IF IsPronoun(lower) THEN PronounCategory(lower) ELSE _check_generic_reference(lower)

\* the main candidates of a category among the resolver's input, in input order
MainsOf(category) == SelectSeq(coref.input, LAMBDA e : MainCategory(e) = category)

\* the main candidates of the category whose name contains one of the
\* substrings the context's table expects for it
ExpectedMains(category) ==
    LET mains == MainsOf(category)
        expected == context_mappings(coref.context, category)
    IN  IF HasContextMapping(coref.context, category)
        THEN {k \in DOMAIN mains : \E x \in DOMAIN expected : Contains(Lower(mains[k].name), Lower(expected[x]))}
        ELSE {}

\* C28: a referring candidate of category C is replaced by a main candidate
\* of category C whose name contains a substring of the context's table for C
\* when there is such a table and such a candidate, and otherwise by the
\* first main candidate of category C in input order
C28_AntecedentChoice ==
    coref.pc = "resolved" =>
        \A i \in DOMAIN coref.input :
            LET category == ReferringCategory(coref.input[i].name)
                mains == MainsOf(category)
                expected == ExpectedMains(category)
            IN  (category \in MainCategories /\ mains # <<>>) =>
                    IF expected # {}
                    THEN \E k \in expected : /\ coref.output[i].id = mains[k].id
                                             /\ coref.output[i].name = mains[k].name
                    ELSE /\ coref.output[i].id = mains[1].id
                         /\ coref.output[i].name = mains[1].name

\* a pronoun resolved, by the context's table, to a main candidate that is
\* not the first of its category
C28_Witness ==
    /\ coref.pc = "resolved"
    /\ \E i \in DOMAIN coref.input :
          LET category == ReferringCategory(coref.input[i].name)
          IN  /\ category \in MainCategories
              /\ ExpectedMains(category) # {}
              /\ 1 \notin ExpectedMains(category)
              /\ coref.output[i].name = N_OpenAI



(***************************************************************************)
(* CoreferenceResolver.cleanup_pronoun_entities_in_neo4j: the sweep over   *)
(* the pronoun and generic entities the store holds                        *)
(***************************************************************************)
\* the pronouns the query of the sweep lists
sweep_pronouns ==
    {<<"w", "e">>,
     <<"u", "s">>,
     <<"o", "u", "r">>,
     <<"y", "o", "u">>,
     <<"y", "o", "u", "r">>,
     <<"i", "t">>,
     <<"i", "t", "s">>,
     <<"t", "h", "e", "y">>,
     <<"t", "h", "e", "m">>,
     <<"t", "h", "e", "i", "r">>,
     <<"t", "h", "i", "s">>,
     <<"t", "h", "a", "t">>,
     <<"h", "e">>,
     <<"s", "h", "e">>,
     <<"h", "i", "m">>,
     <<"h", "e", "r">>,
     <<"h", "i", "s">>,
     <<"h", "e", "r", "s">>}

\* the alternatives of the query's pattern '(?i)the (company|...)'
sweep_generic_nouns ==
    {<<"c", "o", "m", "p", "a", "n", "y">>,
     <<"s", "e", "r", "v", "i", "c", "e">>,
     <<"s", "e", "r", "v", "i", "c", "e", "s">>,
     <<"s", "y", "s", "t", "e", "m">>,
     <<"p", "l", "a", "t", "f", "o", "r", "m">>,
     <<"u", "s", "e", "r">>,
     <<"u", "s", "e", "r", "s">>,
     <<"p", "o", "l", "i", "c", "y">>,
     <<"d", "a", "t", "a">>,
     <<"i", "n", "f", "o", "r", "m", "a", "t", "i", "o", "n">>}

\* resolution_map of cleanup_pronoun_entities_in_neo4j, in the dict's order
resolution_map == <<
    <<<<"w", "e">>, <<"O", "p", "e", "n", "A", "I">>>>,
    <<<<"u", "s">>, <<"O", "p", "e", "n", "A", "I">>>>,
    <<<<"o", "u", "r">>, <<"O", "p", "e", "n", "A", "I">>>>,
    <<<<"y", "o", "u">>, <<"U", "s", "e", "r">>>>,
    <<<<"y", "o", "u", "r">>, <<"U", "s", "e", "r">>>>,
    <<<<"t", "h", "e", " ", "c", "o", "m", "p", "a", "n", "y">>, <<"O", "p", "e", "n", "A", "I">>>>,
    <<<<"t", "h", "e", " ", "s", "e", "r", "v", "i", "c", "e">>, <<"C", "h", "a", "t", "G", "P", "T">>>>,
    <<<<"t", "h", "e", " ", "s", "e", "r", "v", "i", "c", "e", "s">>, <<"C", "h", "a", "t", "G", "P", "T">>>>,
    <<<<"t", "h", "e", " ", "s", "y", "s", "t", "e", "m">>, <<"C", "h", "a", "t", "G", "P", "T">>>>,
    <<<<"t", "h", "e", " ", "p", "l", "a", "t", "f", "o", "r", "m">>, <<"C", "h", "a", "t", "G", "P", "T">>>>,
    <<<<"t", "h", "e", " ", "u", "s", "e", "r">>, <<"U", "s", "e", "r">>>>,
    <<<<"t", "h", "e", " ", "u", "s", "e", "r", "s">>, <<"U", "s", "e", "r">>>>,
    <<<<"t", "h", "e", " ", "p", "o", "l", "i", "c", "y">>, <<"P", "r", "i", "v", "a", "c", "y", " ", "P", "o", "l", "i", "c", "y">>>>,
    <<<<"t", "h", "i", "s", " ", "p", "o", "l", "i", "c", "y">>, <<"P", "r", "i", "v", "a", "c", "y", " ", "P", "o", "l", "i", "c", "y">>>>,
    <<<<"t", "h", "e", " ", "d", "a", "t", "a">>, <<"P", "e", "r", "s", "o", "n", "a", "l", " ", "D", "a", "t", "a">>>>,
    <<<<"t", "h", "e", " ", "i", "n", "f", "o", "r", "m", "a", "t", "i", "o", "n">>, <<"P", "e", "r", "s", "o", "n", "a", "l", " ", "D", "a", "t", "a">>>> >>

W_the_ == <<"t", "h", "e", " ">>

\* the WHERE clause of the sweep's query on an entity name
SweepMatches(name) ==
    \/ Lower(name) \in sweep_pronouns
    \/ \E noun \in sweep_generic_nouns : Lower(name) = W_the_ \o noun

InResolutionMap(pronoun_name) == \E i \in DOMAIN resolution_map : resolution_map[i][1] = pronoun_name

ResolutionOf(pronoun_name) ==
    resolution_map[CHOOSE i \in DOMAIN resolution_map : resolution_map[i][1] = pronoun_name][2]

\* relationships in the graph a sweep starts on
MaxSweepEdges == 1

SweepPool == {MergeNode(1, N_we), MergeNode(2, N_they), MergeNode(3, N_the_company), MergeNode(4, N_OpenAI)}

\* the orders in which the query may return the entities it matches
Orders(S) == {q \in [1..Cardinality(S) -> S] : \A i, j \in 1..Cardinality(S) : i # j => q[i] # q[j]}

InitSweep ==
    /\ InitTypes
    /\ InitCallers({})
    /\ config = Config(TRUE, TRUE, TRUE)
    /\ mg = NoMerge
    /\ coref = NoCoref
    /\ faults = 0
    /\ nextId = 5
    /\ \E stored \in SUBSET SweepPool :
         /\ nodes = {DocumentNode} \cup stored
         /\ \E n \in 0..MaxSweepEdges : \E ends \in [1..n -> {x.id : x \in stored} \X {x.id : x \in stored}] :
              /\ edges = MergeEdges(ends)
              /\ nextEid = n + 1
    /\ call = [pc |-> "find", pronoun_entities |-> <<>>, outcome |-> <<>>, merge_count |-> 0]

\* the query that collects the pronoun entities; an error there leaves the
\* try block for the handler at the end of the method
SweepFind ==
    /\ call.pc = "find"
    /\ \E up \in BOOLEAN :
         /\ ~up => faults < MaxFaults
         /\ faults' = IF up THEN faults ELSE faults + 1
         /\ IF up
            THEN \E found \in Orders({n \in EntityNodes : SweepMatches(n.name)}) :
                    call' = [call EXCEPT !.pc = "sweep",
                                         !.pronoun_entities = [i \in DOMAIN found |->
                                             [id |-> found[i].id, name |-> found[i].name, type |-> found[i].type]]]
            ELSE call' = [call EXCEPT !.pc = "done"]
    /\ UNCHANGED <<storeVars, typeVars, callerVars, config, mg, coref>>

\* _merge_entities as the sweep calls it: the three statements, or an error
\* at statement raised_at (0: none) that leaves what the statements before
\* it committed; ok is the value returned
SweepMerge(ns, es, eid, source_id, target_id, raised_at) ==
    LET o == transfer_outgoing(ns, es, eid, source_id, target_id)
        i == transfer_incoming(ns, o.edges, o.nextEid, source_id, target_id)
        d == delete_source(ns, i.edges, source_id)
    IN  IF raised_at = 1 THEN [nodes |-> ns, edges |-> es, nextEid |-> eid, ok |-> FALSE]
        ELSE IF raised_at = 2 THEN [nodes |-> ns, edges |-> o.edges, nextEid |-> o.nextEid, ok |-> FALSE]
        ELSE IF raised_at = 3 THEN [nodes |-> ns, edges |-> i.edges, nextEid |-> i.nextEid, ok |-> FALSE]
        ELSE [nodes |-> d.nodes, edges |-> i.edges, nextEid |-> i.nextEid, ok |-> d.ok]

\* one iteration of the loop stopping the sweep when a merge returns False
SweepEntity_stopping_on_failure ==
    /\ call.pc = "sweep"
    /\ Len(call.outcome) < Len(call.pronoun_entities)
    /\ LET pronoun_entity == call.pronoun_entities[Len(call.outcome) + 1]
           pronoun_name == Strip(Lower(pronoun_entity.name))
       IN  IF ~InResolutionMap(pronoun_name)
           THEN /\ call' = [call EXCEPT !.outcome = Append(call.outcome, "no resolution")]
                /\ UNCHANGED <<storeVars, faults>>
           ELSE \E up \in BOOLEAN, raised_at \in 0..3 :
                  \E target_id \in get_entity_by_name_and_type(nodes, up, ResolutionOf(pronoun_name), <<>>) :
                     /\ target_id = NoneId => raised_at = 0
                     /\ faults + (IF up THEN 0 ELSE 1) + (IF raised_at = 0 THEN 0 ELSE 1) <= MaxFaults
                     /\ faults' = faults + (IF up THEN 0 ELSE 1) + (IF raised_at = 0 THEN 0 ELSE 1)
                     /\ IF target_id = NoneId
                        THEN /\ call' = [call EXCEPT !.outcome = Append(call.outcome, "target not found")]
                             /\ UNCHANGED storeVars
                        ELSE \E r \in {SweepMerge(nodes, edges, nextEid, pronoun_entity.id, target_id, raised_at)} :
                               /\ nodes' = r.nodes
                               /\ edges' = r.edges
                               /\ nextEid' = r.nextEid
                               /\ nextId' = nextId
                               /\ call' = [call EXCEPT !.outcome = Append(call.outcome, IF r.ok THEN "merged" ELSE "merge failed"),
                                                       !.merge_count = IF r.ok THEN call.merge_count + 1 ELSE call.merge_count,
                                                       !.pc = IF r.ok THEN "sweep" ELSE "done"]
    /\ UNCHANGED <<typeVars, callerVars, config, mg, coref>>

\* one iteration of the loop over pronoun_entities
SweepEntity ==
    /\ call.pc = "sweep"
    /\ Len(call.outcome) < Len(call.pronoun_entities)
    /\ LET pronoun_entity == call.pronoun_entities[Len(call.outcome) + 1]
           pronoun_name == Strip(Lower(pronoun_entity.name))
       IN  IF ~InResolutionMap(pronoun_name)
           THEN /\ call' = [call EXCEPT !.outcome = Append(call.outcome, "no resolution")]
                /\ UNCHANGED <<storeVars, faults>>
           ELSE \E up \in BOOLEAN, raised_at \in 0..3 :
                  \E target_id \in get_entity_by_name_and_type(nodes, up, ResolutionOf(pronoun_name), <<>>) :
                     /\ target_id = NoneId => raised_at = 0
                     /\ faults + (IF up THEN 0 ELSE 1) + (IF raised_at = 0 THEN 0 ELSE 1) <= MaxFaults
                     /\ faults' = faults + (IF up THEN 0 ELSE 1) + (IF raised_at = 0 THEN 0 ELSE 1)
                     /\ IF target_id = NoneId
                        THEN /\ call' = [call EXCEPT !.outcome = Append(call.outcome, "target not found")]
                             /\ UNCHANGED storeVars
                        ELSE \E r \in {SweepMerge(nodes, edges, nextEid, pronoun_entity.id, target_id, raised_at)} :
                               /\ nodes' = r.nodes
                               /\ edges' = r.edges
                               /\ nextEid' = r.nextEid
                               /\ nextId' = nextId
                               /\ call' = [call EXCEPT !.outcome = Append(call.outcome, IF r.ok THEN "merged" ELSE "merge failed"),
                                                       !.merge_count = IF r.ok THEN call.merge_count + 1 ELSE call.merge_count]
    /\ UNCHANGED <<typeVars, callerVars, config, mg, coref>>

\* the loop is over: the count of merges is logged
SweepDone ==
    /\ call.pc = "sweep"
    /\ Len(call.outcome) = Len(call.pronoun_entities)
    /\ call' = [call EXCEPT !.pc = "done"]
    /\ UNCHANGED <<storeVars, typeVars, callerVars, config, faults, mg, coref>>

NextSweep ==
    \/ SweepFind
    \/ SweepEntity
    \/ SweepDone

SpecSweep == InitSweep /\ [][NextSweep]_vars

\* the entity the sweep found is still in the store, as it was found
StillStored(pronoun_entity) ==
    \E n \in EntityNodes : n.id = pronoun_entity.id /\ n.name = pronoun_entity.name

\* the sweep ended after its query had answered
SweepEnded == call.pc = "done" /\ (call.pronoun_entities # <<>> \/ call.outcome # <<>>)

\* C29: in the sweep over the stored pronoun entities a merge that fails
\* does not end the sweep: every entity the query found is handled, the
\* ones after the failure included, and a merge that succeeded removed its
\* entity; an entity without a resolution, or whose target was not found,
\* is still in the store at the end
C29_SweepContinuesAndKeeps ==
    SweepEnded =>
        /\ Len(call.outcome) = Len(call.pronoun_entities)
        /\ \A i \in DOMAIN call.outcome :
             /\ call.outcome[i] \in {"no resolution", "target not found"} => StillStored(call.pronoun_entities[i])
             /\ call.outcome[i] = "merged" => ~StillStored(call.pronoun_entities[i])

\* a sweep in which a merge failed, a later entity was merged, and an entity
\* without a resolution was kept
C29_Witness ==
    /\ SweepEnded
    /\ \E i, j, k \in DOMAIN call.outcome :
          /\ i < j
          /\ call.outcome[i] = "merge failed"
          /\ call.outcome[j] = "merged"
          /\ call.outcome[k] = "no resolution"
          /\ StillStored(call.pronoun_entities[k])



(***************************************************************************)
(* The relationships of a saved batch                                      *)
(***************************************************************************)
\* the candidate the parse gave this id was named by a pronoun or a generic
\* reference
ReferringId(c, id) ==
    \E k \in DOMAIN results[c].entities :
        results[c].entities[k].id = id /\ IsPronounOrGeneric(results[c].entities[k].name)

\* the end of an edge is a stored entity: the one the relationship's endpoint
\* was resolved to or, for an endpoint named by a pronoun, its antecedent
CanonicalEnd(c, end, id) ==
    /\ \E n \in EntityNodes : n.id = end
    /\ (end = id \/ ReferringId(c, id))

\* C30: after a batch was saved successfully, each relationship of the batch
\* (its source and target names are both among the batch's entities) is an
\* edge of its type between the canonical entities of its endpoints, also
\* when an endpoint was named by a pronoun that the coreference
\* normalization rewrote
C30_RelationshipsBetweenCanonical ==
    \A c \in Callers :
        (pc[c] = "next" /\ saved[c].result = "True" /\ saved[c].up) =>
            \A i \in DOMAIN batch[c].relationships :
                LET r == batch[c].relationships[i]
                IN  \E e \in edges : /\ e.type = clean_rel_type(r.relationship_type)
                                     /\ CanonicalEnd(c, e.src, r.source_entity_id)
                                     /\ CanonicalEnd(c, e.tgt, r.target_entity_id)


====
